---- MODULE Spec2Model ----
(***************************************************************************)
(* Door state machine of the Power Pet Door simulator, as run by           *)
(* DoorSimulator in simulator/server.py when no client is connected (the   *)
(* _direct_* path; self.protocols is empty).                               *)
(*                                                                         *)
(* asyncio runs one coroutine at a time and switches only at an await that *)
(* really suspends (asyncio.sleep).  One action of this model is one such  *)
(* atomic stretch: the synchronous body of a command, or the code a        *)
(* coroutine runs between waking from one sleep and reaching the next.     *)
(* Awaiting another coroutine (await self._direct_close_door()) is a plain *)
(* call and belongs to the same stretch.                                   *)
(*                                                                         *)
(* Sleeps are untimed: a suspended coroutine may wake at any later point.  *)
(* DoorTimingConfig makes every phase duration a free parameter and        *)
(* commands arrive at arbitrary times.  The hold timer is counted in poll  *)
(* intervals (asyncio.sleep(0.1)): hold_time and hold_remaining are whole  *)
(* numbers of 0.1 s polls.                                                 *)
(***************************************************************************)
EXTENDS Integers, Sequences, FiniteSets, Bags, TLC

\* ---------------------------------------------------------------- bounds
\* Number of host-side calls (commands, triggers, setters) in one run.
MaxOps == 2
\* Largest hold time, in 0.1 s poll intervals.
MaxHold == 2
\* Largest number of schedule entries held at once.
MaxSchedules == 2
\* Largest number of client connections open at once.
MaxPeers == 2
\* The most objects one inbound stream carries.
MaxObjects == 2
\* The longest command result message, in characters.
MaxLen == 3

\* ------------------------------------------------------- program constants
DOOR_STATE_CLOSED == "DOOR_CLOSED"
DOOR_STATE_RISING == "DOOR_RISING"
DOOR_STATE_SLOWING == "DOOR_SLOWING"
DOOR_STATE_HOLDING == "DOOR_HOLDING"
DOOR_STATE_KEEPUP == "DOOR_KEEPUP"
DOOR_STATE_CLOSING_TOP_OPEN == "DOOR_CLOSING_TOP_OPEN"
DOOR_STATE_CLOSING_MID_OPEN == "DOOR_CLOSING_MID_OPEN"

\* DoorSimulatorState defaults of the two counters.
InitOpenCycles == 1234
InitAutoRetracts == 56

\* DoorSimulatorState default of battery_percent.
InitBatteryPercent == 85
LOW_BATTERY_THRESHOLD == 20

\* Client connections: the DoorSimulatorProtocol objects the server's
\* protocol_factory makes.  NoPeer stands for no registered protocol.
Peers == 1..MaxPeers
NoPeer == 0

Sensors == {"inside", "outside"}
Weekdays == 0..6            \* datetime.weekday(): Monday is 0, Sunday is 6
Flags == {"power", "inside", "outside", "safety_lock", "cmd_lockout", "autoretract"}

VARIABLES
    door_status,            \* state.door_status
    flag,                   \* state.power, .inside, .outside, .safety_lock, .cmd_lockout, .autoretract
    hold_time,              \* state.hold_time, in poll intervals
    inside_sensor_active,   \* state.inside_sensor_active
    outside_sensor_active,  \* state.outside_sensor_active
    total_open_cycles,      \* state.total_open_cycles
    total_auto_retracts,    \* state.total_auto_retracts
    auto,                   \* state.auto
    schedules,              \* state.schedules: index -> Schedule
    ready,                  \* coroutines handed to asyncio.create_task, not yet started (FIFO)
    tasks,                  \* bag of motion coroutines suspended in asyncio.sleep
    pulses,                 \* pending _deactivate_sensor_after timers per sensor, oldest
                            \* first: TRUE for a timer made before the activation that
                            \* last set the sensor's flag
    sent,                   \* door-status broadcasts made by the latest step, in order
    ops,                    \* host-side calls made so far
    last,                   \* history: what the latest step did
    trig,                   \* history: sensor and local time of the trigger made by the latest step
    allowed,                \* history: what the schedule check of the latest step returned
    reply,                  \* the reply the latest step sent to a peer, or its command result
    rev,                    \* history: the reversal in progress, if any
    cyc,                    \* history: the motion cycle in progress
    protocols,              \* self.protocols: the registered connections, in order
    broken,                 \* connections whose transport no longer accepts writes
    emitted,                \* the broadcasts other than door status made by the latest step
    delivered,              \* per connection, the messages the latest step wrote to it
    running,                \* self._running
    stopped,                \* history: stop() has returned
    battery_percent,        \* state.battery_percent
    battery_present,        \* state.battery_present
    ac_present,             \* state.ac_present
    low_battery,            \* state.low_battery (the notification setting)
    battery_config,         \* state.battery_config
    buffer,                 \* a connection's _buffer: bytes received, not yet framed
    inbound,                \* the bytes of the peer's stream that have not arrived yet
    framed                  \* the objects the framer has handed on, in order

\* The server and its connections.
ServerVars == <<protocols, broken, running, stopped>>
\* The battery.
BatteryVars == <<battery_percent, battery_present, ac_present, low_battery, battery_config>>
\* One connection's inbound byte stream.
LinkVars == <<buffer, inbound, framed>>

vars == <<door_status, flag, hold_time, inside_sensor_active, outside_sensor_active,
          total_open_cycles, total_auto_retracts, auto, schedules, ready, tasks, pulses,
          sent, ops, last, trig, allowed, reply, rev, cyc, protocols, broken, emitted, delivered,
          running, stopped, battery_percent, battery_present, ac_present, low_battery,
          battery_config, buffer, inbound, framed>>

\* ------------------------------------------------------------ helpers
Closing == {DOOR_STATE_CLOSING_TOP_OPEN, DOOR_STATE_CLOSING_MID_OPEN}
Opening == {DOOR_STATE_RISING, DOOR_STATE_SLOWING}
Open == {DOOR_STATE_HOLDING, DOOR_STATE_KEEPUP}

\* A suspended motion coroutine: where it sleeps, its hold argument and, in
\* the hold loop, its local hold_remaining.  owner is the registered
\* connection whose _door_task the coroutine is, NoPeer for a task that no
\* registered connection holds.  depth is the number of calls of
\* _direct_open_door and _direct_close_door on the coroutine's chain of
\* awaits, the one that sleeps included.
Task(pc, hold, rem) ==
    [pc |-> pc, hold |-> hold, rem |-> rem, owner |-> NoPeer, depth |-> 1]
NoTask == [pc |-> "none", hold |-> FALSE, rem |-> 0, owner |-> NoPeer, depth |-> 1]

\* The part of the state a motion coroutine writes, gathered so that a chain
\* of calls inside one atomic stretch can be composed.
Cur == [ds |-> door_status, isa |-> inside_sensor_active, osa |-> outside_sensor_active,
        toc |-> total_open_cycles, tar |-> total_auto_retracts, sent |-> <<>>,
        k |-> NoTask, did |-> "none", rv |-> "none", depth |-> 1]

\* Variant of SetStatus that writes the phase without broadcasting it.
SetStatus_NoBroadcast(s, st) == [s EXCEPT !.ds = st]

\* self.state.door_status = st ; self._broadcast_door_status()
SetStatus(s, st) == [s EXCEPT !.ds = st, !.sent = Append(@, st)]

\* Variant of is_sensor_blocking_close that does not look at cmd_lockout.
is_sensor_blocking_close_IgnoresLockout(s) ==
    \/ s.isa /\ flag["inside"]
    \/ s.osa /\ flag["outside"] /\ ~flag["safety_lock"]

\* DoorSimulatorState.is_sensor_blocking_close()
is_sensor_blocking_close(s) ==
    /\ ~flag["cmd_lockout"]
    /\ \/ s.isa /\ flag["inside"]
       \/ s.osa /\ flag["outside"] /\ ~flag["safety_lock"]

\* ------------------------------------------------------------ schedules
\* A Schedule entry (its index is its key in state.schedules).  days is
\* days_of_week, seven 0/1 values for Sunday .. Saturday.
Schedule(enabled, days, inside, outside, sh, sm, eh, em) ==
    [enabled |-> enabled, days_of_week |-> days, inside |-> inside, outside |-> outside,
     start_hour |-> sh, start_min |-> sm, end_hour |-> eh, end_min |-> em]

\* Schedule.is_day_active(weekday); days_of_week[i] of the code is days_of_week[i + 1] here.
is_day_active(e, weekday) ==
    IF ~e.enabled THEN FALSE
    ELSE LET day_index == (weekday + 1) % 7
         IN  e.days_of_week[day_index + 1] # 0

\* Variant of is_sensor_allowed whose window includes its end minute.
is_sensor_allowed_EndInclusive(e, sensor, hour, minute, weekday) ==
    IF sensor = "inside" /\ ~e.inside THEN FALSE
    ELSE IF sensor = "outside" /\ ~e.outside THEN FALSE
    ELSE IF ~is_day_active(e, weekday) THEN FALSE
    ELSE LET current_minutes == hour * 60 + minute
             start == e.start_hour * 60 + e.start_min
             end == e.end_hour * 60 + e.end_min
         IN  IF start <= end
             THEN start <= current_minutes /\ current_minutes <= end
             ELSE current_minutes >= start \/ current_minutes <= end

\* Schedule.is_sensor_allowed(sensor, hour, minute, weekday)
is_sensor_allowed(e, sensor, hour, minute, weekday) ==
    IF sensor = "inside" /\ ~e.inside THEN FALSE
    ELSE IF sensor = "outside" /\ ~e.outside THEN FALSE
    ELSE IF ~is_day_active(e, weekday) THEN FALSE
    ELSE LET current_minutes == hour * 60 + minute
             start == e.start_hour * 60 + e.start_min
             end == e.end_hour * 60 + e.end_min
         IN  IF start <= end
             THEN start <= current_minutes /\ current_minutes < end
             ELSE current_minutes >= start \/ current_minutes < end

\* Variant of is_sensor_allowed_by_schedule that denies when no schedule exists.
is_sensor_allowed_by_schedule_EmptyDenies(au, sch, sensor, now) ==
    IF ~au THEN TRUE
    ELSE \E i \in DOMAIN sch :
             is_sensor_allowed(sch[i], sensor, now.hour, now.minute, now.weekday)

\* DoorSimulatorState.is_sensor_allowed_by_schedule(sensor), with state.auto,
\* state.schedules and datetime.now(tz) passed in.
is_sensor_allowed_by_schedule(au, sch, sensor, now) ==
    IF ~au THEN TRUE
    ELSE IF DOMAIN sch = {} THEN TRUE
    ELSE \E i \in DOMAIN sch :
             is_sensor_allowed(sch[i], sensor, now.hour, now.minute, now.weekday)

\* Day masks, Sunday first.
MondayToFriday == <<0, 1, 1, 1, 1, 1, 0>>
EveryDay == <<1, 1, 1, 1, 1, 1, 1>>
SundayOnly == <<1, 0, 0, 0, 0, 0, 0>>

\* state.schedules with no entry.
NoSchedules == [i \in {} |-> 0]

\* The schedule dictionaries a run of the door state machine starts with:
\* none, or one enabled inside-only entry for Monday to Friday, 09:00-17:00.
DoorSchedules ==
    {NoSchedules,
     [i \in {0} |-> Schedule(TRUE, MondayToFriday, TRUE, FALSE, 9, 0, 17, 0)]}

\* The local times at which the door state machine reads the clock
\* (a Tuesday, at 10:00 and at 20:00).
DoorClock ==
    {[hour |-> 10, minute |-> 0, weekday |-> 1],
     [hour |-> 20, minute |-> 0, weekday |-> 1]}

\* No trigger was made by the latest step.
NoTrig == [sensor |-> "none", hour |-> 0, minute |-> 0, weekday |-> 0, entry |-> -1]
Trig(sensor, now) ==
    [sensor |-> sensor, hour |-> now.hour, minute |-> now.minute, weekday |-> now.weekday,
     entry |-> -1]

\* History of a call that sets the boolean attr to value.
SetTrig(attr, value) == [sensor |-> "none", attr |-> attr, value |-> value]

\* No reply was sent by the latest step.
NoReply == [success |-> "none", reason |-> "none"]

\* A returned bool as kept in allowed ("none": no schedule check was made).
YesNo(b) == IF b THEN "yes" ELSE "no"

\* ------------------------------------------------------------ broadcasts
Range(f) == { f[i] : i \in DOMAIN f }

\* Nothing written to any connection.
NoDelivery == [p \in Peers |-> <<>>]

\* A boolean as the wire carries it.
Wire(b) == IF b THEN "1" ELSE "0"

\* What protocol._send_door_status() sends: the current door phase.
DoorStatusMsg(st) == [kind |-> "door", value |-> st]

\* The message of _broadcast_battery_status(): 0 percent when no battery.
BatteryMsg(percent, present, ac) ==
    [kind |-> "battery", percent |-> IF present THEN percent ELSE 0,
     present |-> Wire(present), ac |-> Wire(ac)]

\* The message of _send_low_battery_notification().
LowBatteryMsg(percent) == [kind |-> "low_battery", percent |-> percent]

\* The message of broadcast_power, broadcast_auto, broadcast_inside_sensor,
\* broadcast_outside_sensor, broadcast_safety_lock, broadcast_cmd_lockout and
\* broadcast_autoretract: the one setting and its value.
SettingMsg(attr, enabled) == [kind |-> attr, value |-> Wire(enabled)]

\* The message of broadcast_hold_time(): int(hold_time * 100) centiseconds,
\* hold being the hold time in 0.1 s.
HoldTimeMsg(hold) == [kind |-> "hold_time", holdTime |-> hold * 10]

\* protocol._send(m) on connection p, d being what this step wrote so far: the
\* message is written to p's transport; a write that fails is logged and
\* raises nothing.
Send(d, p, m) == IF p \in broken THEN d ELSE [d EXCEPT ![p] = Append(@, m)]

\* Variant of SendAll that gives up at the first connection whose write fails.
RECURSIVE SendAll_StopsAtFailure(_, _, _)
SendAll_StopsAtFailure(ps, m, d) ==
    IF ps = <<>> \/ Head(ps) \in broken THEN d
    ELSE SendAll_StopsAtFailure(Tail(ps), m, Send(d, Head(ps), m))

\* Variant of SendAll that leaves out the connection registered last.
RECURSIVE SendAll_SkipsLast(_, _, _)
SendAll_SkipsLast(ps, m, d) ==
    IF Len(ps) <= 1 THEN d
    ELSE SendAll_SkipsLast(Tail(ps), m, Send(d, Head(ps), m))

\* for protocol in self.protocols: protocol._send(m)
RECURSIVE SendAll(_, _, _)
SendAll(ps, m, d) ==
    IF ps = <<>> THEN d
    ELSE SendAll(Tail(ps), m, Send(d, Head(ps), m))

\* Broadcasts made one after another in one step.
RECURSIVE Broadcast(_, _)
Broadcast(ms, d) ==
    IF ms = <<>> THEN d
    ELSE Broadcast(Tail(ms), SendAll(protocols, Head(ms), d))

\* The door-status broadcasts of a step, st being the phases it set in order.
RECURSIVE DoorStatusMsgs(_)
DoorStatusMsgs(st) ==
    IF st = <<>> THEN <<>> ELSE <<DoorStatusMsg(Head(st))>> \o DoorStatusMsgs(Tail(st))

\* -------------------------------------------------------- motion sequences
\* _direct_close_door() with its default arguments, up to its first sleep.
DirectCloseDoor(s) ==
    IF s.ds = DOOR_STATE_CLOSED \/ s.ds \in Closing
    THEN [s EXCEPT !.k = NoTask, !.did = "close_noop"]
    ELSE IF s.ds = DOOR_STATE_RISING
    THEN [SetStatus(s, DOOR_STATE_CLOSING_MID_OPEN) EXCEPT
              !.k = Task("cmid", FALSE, 0), !.did = "close_reverse",
              !.rv = "close_from_rising"]
    ELSE [SetStatus(s, DOOR_STATE_CLOSING_TOP_OPEN) EXCEPT
              !.k = Task("ctop", FALSE, 0),
              !.did = IF s.ds = DOOR_STATE_SLOWING THEN "close_reverse" ELSE "close_start",
              !.rv = IF s.ds = DOOR_STATE_SLOWING THEN "close_from_slowing" ELSE @]

\* Variant of DirectOpenDoor that forgets the "already opening" early return.
DirectOpenDoor_NoOpeningCheck(s, hold) ==
    IF s.ds \in Open
    THEN [s EXCEPT !.k = NoTask, !.did = "open_noop"]
    ELSE IF s.ds = DOOR_STATE_CLOSING_TOP_OPEN
    THEN [SetStatus(s, DOOR_STATE_SLOWING) EXCEPT
              !.k = Task("slow", hold, 0), !.did = "open_reverse",
              !.rv = "open_from_top"]
    ELSE [SetStatus(s, DOOR_STATE_RISING) EXCEPT
              !.k = Task("rise", hold, 0),
              !.did = IF s.ds = DOOR_STATE_CLOSING_MID_OPEN THEN "open_reverse" ELSE "open_start",
              !.rv = IF s.ds = DOOR_STATE_CLOSING_MID_OPEN THEN "open_from_mid" ELSE @]

\* _direct_open_door(hold), up to its first sleep.
DirectOpenDoor(s, hold) ==
    IF s.ds \in Open \cup Opening
    THEN [s EXCEPT !.k = NoTask, !.did = "open_noop"]
    ELSE IF s.ds = DOOR_STATE_CLOSING_TOP_OPEN
    THEN [SetStatus(s, DOOR_STATE_SLOWING) EXCEPT
              !.k = Task("slow", hold, 0), !.did = "open_reverse",
              !.rv = "open_from_top"]
    ELSE [SetStatus(s, DOOR_STATE_RISING) EXCEPT
              !.k = Task("rise", hold, 0),
              !.did = IF s.ds = DOOR_STATE_CLOSING_MID_OPEN THEN "open_reverse" ELSE "open_start",
              !.rv = IF s.ds = DOOR_STATE_CLOSING_MID_OPEN THEN "open_from_mid" ELSE @]

\* Variant of HoldLoop that does not reset hold_remaining while blocked.
HoldLoop_NoReset(s, rem) ==
    IF rem > 0 \/ is_sensor_blocking_close(s)
    THEN [s EXCEPT !.k = Task("hold", FALSE, rem), !.did = "hold_poll"]
    ELSE [DirectCloseDoor([s EXCEPT !.depth = @ + 1]) EXCEPT !.did = "hold_expired"]

\* The hold loop of _direct_open_door, entered with hold_remaining = rem:
\* from the while test to the next sleep, or into _direct_close_door.
HoldLoop(s, rem) ==
    IF rem > 0 \/ is_sensor_blocking_close(s)
    THEN [s EXCEPT !.k = Task("hold", FALSE,
                               IF is_sensor_blocking_close(s) THEN hold_time ELSE rem),
                   !.did = "hold_poll"]
    ELSE [DirectCloseDoor([s EXCEPT !.depth = @ + 1]) EXCEPT !.did = "hold_expired"]

\* Variant of CheckSensorRetract that restarts total_auto_retracts at 0.
CheckSensorRetract_ResetsCount(s) ==
    IF is_sensor_blocking_close(s) /\ flag["autoretract"]
    THEN [DirectOpenDoor([s EXCEPT !.isa = FALSE, !.osa = FALSE, !.tar = 0,
                                   !.depth = @ + 1], FALSE)
              EXCEPT !.did = "retract"]
    ELSE s

\* Variant of CheckSensorRetract that clears only the inside sensor flag.
CheckSensorRetract_KeepsOutside(s) ==
    IF is_sensor_blocking_close(s) /\ flag["autoretract"]
    THEN [DirectOpenDoor([s EXCEPT !.isa = FALSE, !.tar = @ + 1, !.depth = @ + 1], FALSE)
              EXCEPT !.did = "retract"]
    ELSE s

\* Variant of CheckSensorRetract that retracts whether or not autoretract is set.
CheckSensorRetract_IgnoresSetting(s) ==
    IF is_sensor_blocking_close(s)
    THEN [DirectOpenDoor([s EXCEPT !.isa = FALSE, !.osa = FALSE, !.tar = @ + 1,
                                   !.depth = @ + 1], FALSE)
              EXCEPT !.did = "retract"]
    ELSE s

\* _check_sensor_retract(): the record's did is "retract" when it returned True.
CheckSensorRetract(s) ==
    IF is_sensor_blocking_close(s) /\ flag["autoretract"]
    THEN [DirectOpenDoor([s EXCEPT !.isa = FALSE, !.osa = FALSE, !.tar = @ + 1,
                                   !.depth = @ + 1], FALSE)
              EXCEPT !.did = "retract"]
    ELSE s

\* _direct_open_door after sleep(timing.rise_time)
AfterRise(s, t) ==
    [SetStatus(s, DOOR_STATE_SLOWING) EXCEPT !.k = Task("slow", t.hold, 0), !.did = "rise_done"]

\* _direct_open_door after sleep(timing.slowing_time)
AfterSlow(s, t) ==
    IF t.hold
    THEN [SetStatus(s, DOOR_STATE_KEEPUP) EXCEPT !.k = NoTask, !.did = "keepup"]
    ELSE LET r == HoldLoop(SetStatus(s, DOOR_STATE_HOLDING), hold_time)
         IN  [r EXCEPT !.did = IF @ = "hold_poll" THEN "holding" ELSE @]

\* _direct_open_door after sleep(0.1) in the hold loop
AfterPoll(s, t) == HoldLoop(s, t.rem - 1)

\* Variant of AfterTop that sleeps on in CLOSING_TOP_OPEN instead of entering
\* CLOSING_MID_OPEN, so the door goes from CLOSING_TOP_OPEN to CLOSED.
AfterTop_SkipsMid(s, t) ==
    LET r == CheckSensorRetract(s)
    IN  IF r.did = "retract" THEN [r EXCEPT !.did = "retract_top"]
        ELSE [s EXCEPT !.k = Task("cmid", FALSE, 0), !.did = "top_done"]

\* _direct_close_door after sleep(timing.closing_top_time)
AfterTop(s, t) ==
    LET r == CheckSensorRetract(s)
    IN  IF r.did = "retract" THEN [r EXCEPT !.did = "retract_top"]
        ELSE [SetStatus(s, DOOR_STATE_CLOSING_MID_OPEN) EXCEPT
                  !.k = Task("cmid", FALSE, 0), !.did = "top_done"]

\* Variant of AfterMid that counts the cycle twice.
AfterMid_CountsTwice(s, t) ==
    LET r == CheckSensorRetract(s)
    IN  IF r.did = "retract" THEN [r EXCEPT !.did = "retract_mid"]
        ELSE [SetStatus(s, DOOR_STATE_CLOSED) EXCEPT
                  !.toc = @ + 2, !.k = NoTask, !.did = "closed"]

\* _direct_close_door after sleep(timing.closing_mid_time)
AfterMid(s, t) ==
    LET r == CheckSensorRetract(s)
    IN  IF r.did = "retract" THEN [r EXCEPT !.did = "retract_mid"]
        ELSE [SetStatus(s, DOOR_STATE_CLOSED) EXCEPT
                  !.toc = @ + 1, !.k = NoTask, !.did = "closed"]

\* The code a suspended coroutine runs when its sleep ends.
Resume(s, t) ==
    CASE t.pc = "rise" -> AfterRise(s, t)
      [] t.pc = "slow" -> AfterSlow(s, t)
      [] t.pc = "hold" -> AfterPoll(s, t)
      [] t.pc = "ctop" -> AfterTop(s, t)
      [] t.pc = "cmid" -> AfterMid(s, t)

\* ------------------------------------------------------ history variables
\* Place of a phase in the order RISING, SLOWING, HOLDING, CLOSING_TOP_OPEN,
\* CLOSING_MID_OPEN, CLOSED; KEEPUP stands where HOLDING does.
Pos(st) ==
    CASE st = DOOR_STATE_RISING -> 1
      [] st = DOOR_STATE_SLOWING -> 2
      [] st = DOOR_STATE_HOLDING -> 3
      [] st = DOOR_STATE_KEEPUP -> 3
      [] st = DOOR_STATE_CLOSING_TOP_OPEN -> 4
      [] st = DOOR_STATE_CLOSING_MID_OPEN -> 5
      [] st = DOOR_STATE_CLOSED -> 6

Retracted(r) == r.did \in {"retract_top", "retract_mid"}

\* cyc after one broadcast phase p that follows phase prev.  A cycle begins
\* when RISING follows CLOSED; it begins clean when no motion coroutine is
\* suspended at that moment.
TrackOne(c, prev, p, toc) ==
    IF prev = DOOR_STATE_CLOSED /\ p = DOOR_STATE_RISING
    THEN [pos |-> 1, ok |-> TRUE, clean |-> (tasks = EmptyBag), toc0 |-> toc]
    ELSE [c EXCEPT !.pos = Pos(p), !.ok = @ /\ Pos(p) = c.pos + 1]

RECURSIVE TrackAll(_, _, _, _)
TrackAll(c, prev, ps, toc) ==
    IF ps = <<>> THEN c
    ELSE TrackAll(TrackOne(c, prev, Head(ps), toc), Head(ps), Tail(ps), toc)

NextCyc(r) ==
    LET c == TrackAll(cyc, door_status, r.sent, total_open_cycles)
    IN  [c EXCEPT !.clean = @ /\ r.rv = "none" /\ ~Retracted(r)]

NextRev(r) ==
    IF Retracted(r) THEN "none"
    ELSE IF r.rv # "none" THEN r.rv
    ELSE IF rev \in {"close_from_rising", "close_from_slowing"} /\ r.ds = DOOR_STATE_CLOSED
    THEN "none"
    ELSE IF rev \in {"open_from_top", "open_from_mid"}
            /\ \E i \in 1..Len(r.sent) : r.sent[i] \in Open
    THEN "none"
    ELSE rev

\* ------------------------------------------------------------------ Init
\* DoorSimulator.__init__: no connection, not yet started.
LinkInit ==
    /\ buffer = <<>>
    /\ inbound = <<>>
    /\ framed = <<>>

ServerInit ==
    /\ protocols = <<>>
    /\ broken = {}
    /\ emitted = <<>>
    /\ delivered = NoDelivery
    /\ running = FALSE
    /\ stopped = FALSE

\* BatteryConfig: charge_rate and discharge_rate in hundredths of a percent per
\* minute, update_interval in seconds.
BatteryConfig(charge, discharge, interval) ==
    [charge_rate |-> charge, discharge_rate |-> discharge, update_interval |-> interval]

\* The battery fields of DoorSimulatorState() and BatteryConfig().
BatteryDefaults ==
    /\ battery_percent = InitBatteryPercent
    /\ battery_present = TRUE
    /\ ac_present = TRUE
    /\ low_battery = TRUE
    /\ battery_config = BatteryConfig(100, 10, 60)

\* DoorSimulator(state=DoorSimulatorState(...)) with the boolean settings
\* false for the flags in off and true for the others.
DoorInit(off) ==
    /\ LinkInit
    /\ ServerInit
    /\ BatteryDefaults
    /\ door_status = DOOR_STATE_CLOSED
    /\ flag = [f \in Flags |-> f \notin off]
    /\ hold_time \in 0..MaxHold
    /\ inside_sensor_active = FALSE
    /\ outside_sensor_active = FALSE
    /\ total_open_cycles = InitOpenCycles
    /\ total_auto_retracts = InitAutoRetracts
    /\ auto = TRUE
    /\ schedules \in DoorSchedules
    /\ ready = <<>>
    /\ tasks = EmptyBag
    /\ pulses = [x \in Sensors |-> <<>>]
    /\ sent = <<>>
    /\ ops = 0
    /\ last = "init"
    /\ trig = NoTrig
    /\ allowed = "none"
    /\ reply = NoReply
    /\ rev = "none"
    /\ cyc = [pos |-> 0, ok |-> TRUE, clean |-> TRUE, toc0 |-> InitOpenCycles]

\* DoorSimulatorState() with its default settings.
Init == DoorInit({"safety_lock", "cmd_lockout"})

\* DoorSimulatorState(autoretract=False)
NoRetractInit == DoorInit({"safety_lock", "cmd_lockout", "autoretract"})

\* ------------------------------------------------------- motion coroutines
\* Write back what an atomic stretch of a motion coroutine left behind.
Commit(r, rest, o) ==
    /\ door_status' = r.ds
    /\ inside_sensor_active' = r.isa
    /\ outside_sensor_active' = r.osa
    /\ total_open_cycles' = r.toc
    /\ total_auto_retracts' = r.tar
    /\ sent' = r.sent
    /\ tasks' = IF r.k = NoTask THEN rest
                ELSE rest (+) SetToBag({[r.k EXCEPT !.owner = o, !.depth = r.depth]})
    /\ emitted' = <<>>
    /\ delivered' = Broadcast(DoorStatusMsgs(r.sent), NoDelivery)
    /\ last' = r.did
    /\ rev' = NextRev(r)
    /\ cyc' = NextCyc(r)
    /\ trig' = NoTrig
    /\ allowed' = "none"
    /\ reply' = NoReply
    /\ UNCHANGED <<flag, hold_time, auto, schedules, pulses, ops>>
    /\ UNCHANGED <<ServerVars, BatteryVars, LinkVars>>

\* The event loop starts the oldest created coroutine: open_door(hold) or
\* close_door(), which with no client connected are _direct_open_door(hold)
\* and _direct_close_door().
Start ==
    /\ ready # <<>>
    /\ LET h == Head(ready)
       IN  Commit(IF h.op = "open" THEN DirectOpenDoor(Cur, h.hold) ELSE DirectCloseDoor(Cur),
                  tasks, h.owner)
    /\ ready' = Tail(ready)

Wake(pc) ==
    \E t \in BagToSet(tasks) :
        /\ t.pc = pc
        /\ Commit(Resume([Cur EXCEPT !.depth = t.depth], t), tasks (-) SetToBag({t}), t.owner)
        /\ UNCHANGED ready

WakeRise == Wake("rise")
WakeSlow == Wake("slow")
WakePoll == Wake("hold")
WakeTop == Wake("ctop")
WakeMid == Wake("cmid")

\* ------------------------------------------------------- host-side calls
\* A call that broadcasts the messages ms.  No call is made on a simulator
\* that has been stopped.
HostSend(label, ms) ==
    /\ ~stopped
    /\ ops < MaxOps
    /\ ops' = ops + 1
    /\ sent' = <<>>
    /\ emitted' = ms
    /\ delivered' = Broadcast(ms, NoDelivery)
    /\ last' = label
    /\ UNCHANGED <<door_status, total_open_cycles, total_auto_retracts, schedules, tasks,
                   rev, cyc>>
    /\ UNCHANGED <<ServerVars, BatteryVars, LinkVars>>

Host(label) == HostSend(label, <<>>)

\* asyncio.create_task of a motion coroutine; by (who created it) and at (the
\* door phase at that moment) are history, read by no action.
SpawnFor(op, hold, by, o) ==
    ready' = Append(ready, [op |-> op, hold |-> hold, by |-> by, at |-> door_status,
                            owner |-> o])

Spawn(op, hold, by) == SpawnFor(op, hold, by, NoPeer)

\* DoorSimulator.trigger_sensor(sensor) -> _direct_trigger_sensor(sensor),
\* the branch taken when self.protocols is empty; now is what
\* datetime.now(tz) returns during the call.
TriggerSensor ==
    \E sensor \in Sensors, now \in DoorClock :
        LET gated == \/ ~flag["power"]
                     \/ flag["cmd_lockout"]
                     \/ sensor = "inside" /\ ~flag["inside"]
                     \/ sensor = "outside" /\ (~flag["outside"] \/ flag["safety_lock"])
            sched_ok == is_sensor_allowed_by_schedule(auto, schedules, sensor, now)
            dropped == gated \/ ~sched_ok
        IN  /\ protocols = <<>>
            /\ Host(IF dropped THEN "trigger_dropped" ELSE "trigger")
            /\ IF dropped THEN UNCHANGED ready ELSE Spawn("open", FALSE, "trigger")
            /\ trig' = Trig(sensor, now)
            /\ allowed' = IF gated THEN "none" ELSE YesNo(sched_ok)
            /\ reply' = NoReply
            /\ UNCHANGED <<flag, hold_time, inside_sensor_active, outside_sensor_active,
                           auto, pulses>>

\* The pending timers after a later activation has set the sensor's flag.
Outlived(timers) == [i \in 1..Len(timers) |-> TRUE]

\* The pending timers without the i-th, whose sleep has ended.
Expired(timers, i) == SubSeq(timers, 1, i - 1) \o SubSeq(timers, i + 1, Len(timers))

\* DoorSimulator.activate_sensor(sensor, duration); pulse is duration > 0.
\* The call does not read the clock; now is the local time at which it is
\* made, kept in trig only.
ActivateSensor ==
    \E sensor \in Sensors, pulse \in BOOLEAN, now \in DoorClock :
        LET isa == IF sensor = "inside"
                   THEN (IF pulse THEN TRUE ELSE ~inside_sensor_active)
                   ELSE FALSE
            osa == IF sensor = "outside"
                   THEN (IF pulse THEN TRUE ELSE ~outside_sensor_active)
                   ELSE FALSE
            should_trigger ==
                /\ door_status = DOOR_STATE_CLOSED
                /\ \/ sensor = "inside" /\ isa /\ flag["power"] /\ flag["inside"]
                   \/ sensor = "outside" /\ osa /\ flag["power"] /\ flag["outside"]
                          /\ ~flag["safety_lock"]
        IN  /\ Host("activate")
            /\ inside_sensor_active' = isa
            /\ outside_sensor_active' = osa
            /\ pulses' = [pulses EXCEPT ![sensor] =
                              IF pulse THEN Append(Outlived(@), FALSE)
                              ELSE IF isa \/ osa THEN Outlived(@)
                              ELSE @]
            /\ IF should_trigger THEN Spawn("open", FALSE, "activate") ELSE UNCHANGED ready
            /\ trig' = Trig(sensor, now)
            /\ allowed' = "none"
            /\ reply' = NoReply
            /\ UNCHANGED <<flag, hold_time, auto>>

\* _deactivate_sensor_after(sensor, duration), when its sleep ends; the
\* durations are free, so any pending timer may be the next to end.
DeactivateSensorAfter ==
    \E sensor \in Sensors, i \in 1..MaxOps :
        /\ i <= Len(pulses[sensor])
        /\ pulses' = [pulses EXCEPT ![sensor] = Expired(@, i)]
        /\ inside_sensor_active' = IF sensor = "inside" THEN FALSE ELSE inside_sensor_active
        /\ outside_sensor_active' = IF sensor = "outside" THEN FALSE ELSE outside_sensor_active
        /\ sent' = <<>>
        /\ emitted' = <<>>
        /\ delivered' = NoDelivery
        /\ last' = "deactivate"
        /\ trig' = NoTrig
        /\ allowed' = "none"
        /\ reply' = NoReply
        /\ UNCHANGED <<door_status, flag, hold_time, total_open_cycles, total_auto_retracts,
                       auto, schedules, ready, tasks, ops, rev, cyc>>
        /\ UNCHANGED <<ServerVars, BatteryVars, LinkVars>>

\* DoorSimulator.simulate_obstruction(), no client connected.
SimulateObstruction ==
    /\ protocols = <<>>
    /\ Host("obstruction")
    /\ inside_sensor_active' = TRUE
    /\ trig' = NoTrig
    /\ allowed' = "none"
    /\ reply' = NoReply
    /\ UNCHANGED <<flag, hold_time, outside_sensor_active, auto, ready, pulses>>

\* DoorSimulator.set_pet_in_doorway(present)
SetPetInDoorway ==
    \E present \in BOOLEAN :
        /\ Host("pet")
        /\ inside_sensor_active' = present
        /\ outside_sensor_active' = IF present THEN FALSE ELSE outside_sensor_active
        /\ trig' = NoTrig
        /\ allowed' = "none"
        /\ reply' = NoReply
        /\ UNCHANGED <<flag, hold_time, auto, ready, pulses>>

\* The close command: asyncio.create_task(self.simulator.close_door())
CmdClose ==
    /\ Host("cmd_close")
    /\ Spawn("close", FALSE, "cmd")
    /\ trig' = NoTrig
    /\ allowed' = "none"
    /\ reply' = NoReply
    /\ UNCHANGED <<flag, hold_time, inside_sensor_active, outside_sensor_active, auto, pulses>>

\* The hold command: asyncio.create_task(self.simulator.open_door(hold=True))
CmdHold ==
    /\ Host("cmd_hold")
    /\ Spawn("open", TRUE, "cmd")
    /\ trig' = NoTrig
    /\ allowed' = "none"
    /\ reply' = NoReply
    /\ UNCHANGED <<flag, hold_time, inside_sensor_active, outside_sensor_active, auto, pulses>>

\* The cycle command: asyncio.create_task(self.simulator.open_door(hold=False))
CmdCycle ==
    /\ Host("cmd_cycle")
    /\ Spawn("open", FALSE, "cmd")
    /\ trig' = NoTrig
    /\ allowed' = "none"
    /\ reply' = NoReply
    /\ UNCHANGED <<flag, hold_time, inside_sensor_active, outside_sensor_active, auto, pulses>>

\* Variant of ToggleBool that broadcasts only a value that changed.
ToggleBool_QuietWhenSame ==
    \E attr \in Flags, value \in BOOLEAN :
        /\ HostSend("set", IF flag[attr] = value THEN <<>> ELSE <<SettingMsg(attr, value)>>)
        /\ flag' = [flag EXCEPT ![attr] = value]
        /\ trig' = SetTrig(attr, value)
        /\ allowed' = "none"
        /\ reply' = NoReply
        /\ UNCHANGED <<hold_time, inside_sensor_active, outside_sensor_active, auto, ready,
                       pulses>>

\* _toggle_bool(attr, name, value) on power, the sensor enables, safety lock,
\* command lockout and auto-retract.
ToggleBool ==
    \E attr \in Flags, value \in BOOLEAN :
        /\ HostSend("set", <<SettingMsg(attr, value)>>)
        /\ flag' = [flag EXCEPT ![attr] = value]
        /\ trig' = SetTrig(attr, value)
        /\ allowed' = "none"
        /\ reply' = NoReply
        /\ UNCHANGED <<hold_time, inside_sensor_active, outside_sensor_active, auto, ready,
                       pulses>>

\* The holdtime command (0.1 s at least).
SetHoldTime ==
    \E seconds \in 1..MaxHold :
        /\ HostSend("set", <<HoldTimeMsg(seconds)>>)
        /\ hold_time' = seconds
        /\ trig' = NoTrig
        /\ allowed' = "none"
        /\ reply' = NoReply
        /\ UNCHANGED <<flag, inside_sensor_active, outside_sensor_active, auto, ready, pulses>>

\* Variant of RefusalReasons that refuses for power only.
RefusalReasons_PowerOnly ==
    IF ~flag["power"] THEN {"power"} ELSE {}

\* Why a door-motion command of a peer is refused now: power off, command
\* lockout, or nothing (the empty set).
RefusalReasons ==
    (IF ~flag["power"] THEN {"power"} ELSE {})
        \cup (IF flag["cmd_lockout"] THEN {"lockout"} ELSE {})

\* A door-motion command (OPEN, OPEN_AND_HOLD, CLOSE) received from a peer:
\* refused with success "false" and a reason, changing nothing, or accepted
\* and the motion started as the door task of the connection p it came in
\* on.  p is a registered connection, or NoPeer for a protocol object made
\* without the server's factory, which self.protocols never holds.
PeerDoorCommand ==
    \E cmd \in {"OPEN", "OPEN_AND_HOLD", "CLOSE"}, p \in {NoPeer} \cup Range(protocols) :
        /\ Host("peer")
        /\ IF RefusalReasons # {}
           THEN /\ \E why \in RefusalReasons :
                       reply' = [success |-> "false", reason |-> why]
                /\ UNCHANGED ready
           ELSE /\ reply' = [success |-> "true", reason |-> "none"]
                /\ SpawnFor(IF cmd = "CLOSE" THEN "close" ELSE "open", cmd = "OPEN_AND_HOLD",
                            "peer", p)
        /\ trig' = NoTrig
        /\ allowed' = "none"
        /\ UNCHANGED <<flag, hold_time, inside_sensor_active, outside_sensor_active, auto,
                       pulses>>

\* The auto command: _toggle_bool("auto", ...) sets state.auto, or flips it
\* when given no value.
CmdAuto ==
    \E value \in BOOLEAN :
        /\ HostSend("set", <<SettingMsg("auto", value)>>)
        /\ auto' = value
        /\ trig' = SetTrig("auto", value)
        /\ allowed' = "none"
        /\ reply' = NoReply
        /\ UNCHANGED <<flag, hold_time, inside_sensor_active, outside_sensor_active, ready,
                       pulses>>

Next ==
    \/ Start
    \/ WakeRise
    \/ WakeSlow
    \/ WakePoll
    \/ WakeTop
    \/ WakeMid
    \/ TriggerSensor
    \/ ActivateSensor
    \/ DeactivateSensorAfter
    \/ SimulateObstruction
    \/ SetPetInDoorway
    \/ CmdClose
    \/ CmdHold
    \/ CmdCycle
    \/ ToggleBool
    \/ SetHoldTime
    \/ CmdAuto
    \/ PeerDoorCommand

Spec == Init /\ [][Next]_vars

\* The door machine of a simulator made with autoretract off.
NoRetractSpec == NoRetractInit /\ [][Next]_vars

\* ------------------------------------------------------- server lifecycle
\* The door machine together with the server's start and stop and with
\* connections coming and going.  With a connection registered, open_door
\* and close_door run the first connection's motion coroutine in the task
\* the caller made; it is taken to move the door as the direct one does.
ServerStep(label) ==
    /\ sent' = <<>>
    /\ emitted' = <<>>
    /\ delivered' = NoDelivery
    /\ last' = label
    /\ trig' = NoTrig
    /\ allowed' = "none"
    /\ reply' = NoReply
    /\ UNCHANGED <<door_status, flag, hold_time, inside_sensor_active, outside_sensor_active,
                   total_open_cycles, total_auto_retracts, auto, schedules, pulses, ops,
                   rev, cyc>>
    /\ UNCHANGED <<BatteryVars, LinkVars>>

\* DoorSimulator.start(): the server listens and the battery task is made.
StartServer ==
    /\ ~running
    /\ ~stopped
    /\ running' = TRUE
    /\ ServerStep("start")
    /\ UNCHANGED <<protocols, broken, stopped, ready, tasks>>

\* protocol_factory(), called for a new connection p.
Connect ==
    \E p \in Peers \ Range(protocols) :
        /\ running
        /\ protocols' = Append(protocols, p)
        /\ ServerStep("connect")
        /\ UNCHANGED <<broken, running, stopped, ready, tasks>>

\* self.protocols.remove(protocol)
Remove(ps, p) == SelectSeq(ps, LAMBDA q : q # p)

\* protocol._door_task.cancel() for each connection in gone: its coroutines,
\* suspended or not yet started, never run again.
CancelDoorTasks(gone) ==
    /\ tasks' = LET keep == { t \in BagToSet(tasks) : t.owner \notin gone }
                IN  [t \in keep |-> tasks[t]]
    /\ ready' = SelectSeq(ready, LAMBDA h : h.owner \notin gone)

\* protocol.connection_lost(exc) on connection p cancels p's door task.
ConnectionLost(p) == CancelDoorTasks({p})

\* A connection p closes: connection_lost, then handle_disconnect(protocol).
Disconnect ==
    \E p \in Range(protocols) :
        /\ ConnectionLost(p)
        /\ protocols' = Remove(protocols, p)
        /\ broken' = broken \ {p}
        /\ ServerStep("disconnect")
        /\ UNCHANGED <<running, stopped>>

\* DoorSimulator.stop(): the battery task and every connection's door task
\* are cancelled and awaited, the connections closed and forgotten.  While
\* stop() awaits, the event loop starts every coroutine created before it, so
\* none is left unstarted when it returns.
StopServer ==
    /\ running
    /\ ready = <<>>
    /\ running' = FALSE
    /\ stopped' = TRUE
    /\ CancelDoorTasks(Range(protocols))
    /\ protocols' = <<>>
    /\ broken' = {}
    /\ ServerStep("stop")

\* ------------------------------------------------------------- battery
\* Percentages are whole numbers; rates are in hundredths of a percent per
\* minute and the float arithmetic of the ticker is done in hundredths of a
\* percent.  The rates and intervals used are values binary floating point
\* holds exactly, so the float results are these exact ones.
Scale == 100

Min(a, b) == IF a <= b THEN a ELSE b
Max(a, b) == IF a >= b THEN a ELSE b

\* rate * (update_interval / 60.0), in hundredths of a percent
Delta(rate, interval) == (rate * interval) \div 60

\* What a battery change leaves: the stored percent and the broadcasts made.
BatteryResult(percent, ms) == [percent |-> percent, msgs |-> ms]

\* _send_low_battery_notification() after a change from old to new that was
\* found to cross the threshold.
LowBatteryNotification(new) ==
    IF low_battery THEN <<LowBatteryMsg(new)>> ELSE <<>>

\* The charging branch of _battery_simulation_loop: new_percent is compared
\* with the stored percent as a float, its integer part is stored.
ChargeTick(old, c) ==
    LET new == Min(100 * Scale, old * Scale + Delta(c.charge_rate, c.update_interval))
    IN  IF new # old * Scale
        THEN BatteryResult(new \div Scale,
                           <<BatteryMsg(new \div Scale, battery_present, ac_present)>>)
        ELSE BatteryResult(old, <<>>)

\* Variant of DischargeTick that notifies whenever the new percent is at or
\* below the threshold.
DischargeTick_NotifiesBelow(old, c) ==
    LET new == Max(0, old * Scale - Delta(c.discharge_rate, c.update_interval))
        np == new \div Scale
    IN  IF np # old
        THEN BatteryResult(np, <<BatteryMsg(np, battery_present, ac_present)>>
                               \o (IF np <= LOW_BATTERY_THRESHOLD
                                   THEN LowBatteryNotification(np) ELSE <<>>))
        ELSE BatteryResult(old, <<>>)

\* The discharging branch of _battery_simulation_loop.
DischargeTick(old, c) ==
    LET new == Max(0, old * Scale - Delta(c.discharge_rate, c.update_interval))
        np == new \div Scale
    IN  IF np # old
        THEN BatteryResult(np, <<BatteryMsg(np, battery_present, ac_present)>>
                               \o (IF old > LOW_BATTERY_THRESHOLD /\ np <= LOW_BATTERY_THRESHOLD
                                   THEN LowBatteryNotification(np) ELSE <<>>))
        ELSE BatteryResult(old, <<>>)

\* Variant of TickResult that charges whenever AC is present, whatever the rate.
TickResult_IgnoresZeroRate(old, c) ==
    IF ~battery_present THEN BatteryResult(old, <<>>)
    ELSE IF ac_present
    THEN ChargeTick(old, [c EXCEPT !.charge_rate = IF @ = 0 THEN Scale ELSE @])
    ELSE IF ~ac_present /\ c.discharge_rate > 0 THEN DischargeTick(old, c)
    ELSE BatteryResult(old, <<>>)

\* One pass of the loop of _battery_simulation_loop after its sleep.
TickResult(old, c) ==
    IF ~battery_present THEN BatteryResult(old, <<>>)
    ELSE IF ac_present /\ c.charge_rate > 0 THEN ChargeTick(old, c)
    ELSE IF ~ac_present /\ c.discharge_rate > 0 THEN DischargeTick(old, c)
    ELSE BatteryResult(old, <<>>)

\* Variant of SetBatteryResult that stores the argument as given.
SetBatteryResult_NoClamp(old, percent) ==
    BatteryResult(percent,
                  <<BatteryMsg(percent, battery_present, ac_present)>>
                      \o (IF old > LOW_BATTERY_THRESHOLD /\ percent <= LOW_BATTERY_THRESHOLD
                          THEN LowBatteryNotification(percent) ELSE <<>>))

\* set_battery(percent)
SetBatteryResult(old, percent) ==
    LET new == Max(0, Min(100, percent))
    IN  BatteryResult(new,
                      <<BatteryMsg(new, battery_present, ac_present)>>
                          \o (IF old > LOW_BATTERY_THRESHOLD /\ percent <= LOW_BATTERY_THRESHOLD
                              THEN LowBatteryNotification(new) ELSE <<>>))

\* Frame of a step that touches the battery only and broadcasts ms.
BatteryStep(label, ms) ==
    /\ sent' = <<>>
    /\ emitted' = ms
    /\ delivered' = Broadcast(ms, NoDelivery)
    /\ last' = label
    /\ allowed' = "none"
    /\ reply' = NoReply
    /\ UNCHANGED <<door_status, flag, hold_time, inside_sensor_active, outside_sensor_active,
                   total_open_cycles, total_auto_retracts, auto, schedules, ready, tasks,
                   pulses, rev, cyc, low_battery>>
    /\ UNCHANGED <<ServerVars, LinkVars>>

\* A call made from the host side counts as one of the run's calls.
BatteryCall(label, ms) ==
    /\ ~stopped
    /\ ops < MaxOps
    /\ ops' = ops + 1
    /\ BatteryStep(label, ms)

\* History of a tick: nominal is where the configured rate alone would have
\* the battery, in hundredths of a percent, after the unbroken run of
\* discharging ticks this one belongs to, or -1 when the tick did not
\* discharge or max(0, ...) clamped it.
TickTrig(old, c) ==
    LET delta == Delta(c.discharge_rate, c.update_interval)
        discharging == battery_present /\ ~ac_present /\ c.discharge_rate > 0
        from == IF last = "tick" /\ trig.nominal # -1 THEN trig.nominal ELSE old * Scale
    IN  [sensor |-> "none", hour |-> 0, minute |-> 0, weekday |-> 0, entry |-> -1,
         nominal |-> IF discharging /\ old * Scale - delta >= 0 THEN from - delta ELSE -1]

\* The battery task wakes from asyncio.sleep(update_interval) and runs the
\* loop body once.
BatteryTick ==
    LET r == TickResult(battery_percent, battery_config)
    IN  /\ running
        /\ battery_percent' = r.percent
        /\ BatteryStep("tick", r.msgs)
        /\ trig' = TickTrig(battery_percent, battery_config)
        /\ UNCHANGED <<ops, battery_present, ac_present, battery_config>>

\* Arguments given to set_battery: below, at and above the range and around
\* the low-battery threshold.
BatteryArgs == {-5, 0, 19, 20, 21, 100, 150}

\* DoorSimulator.set_battery(percent)
SetBattery ==
    \E percent \in BatteryArgs :
        LET r == SetBatteryResult(battery_percent, percent)
        IN  /\ battery_percent' = r.percent
            /\ BatteryCall("set_battery", r.msgs)
            /\ trig' = [sensor |-> "none", percent |-> percent]
            /\ UNCHANGED <<battery_present, ac_present, battery_config>>

\* DoorSimulator.set_ac_present(present)
SetAcPresent ==
    \E present \in BOOLEAN :
        /\ ac_present' = present
        /\ BatteryCall("set_ac",
                       IF ac_present = present THEN <<>>
                       ELSE <<BatteryMsg(battery_percent, battery_present, present)>>)
        /\ trig' = SetTrig("ac_present", present)
        /\ UNCHANGED <<battery_percent, battery_present, battery_config>>

\* DoorSimulator.set_battery_present(present)
SetBatteryPresent ==
    \E present \in BOOLEAN :
        /\ battery_present' = present
        /\ BatteryCall("set_present",
                       IF battery_present = present THEN <<>>
                       ELSE <<BatteryMsg(battery_percent, present, ac_present)>>)
        /\ trig' = SetTrig("battery_present", present)
        /\ UNCHANGED <<battery_percent, ac_present, battery_config>>

\* Rates given to set_charge_rate and set_discharge_rate, in hundredths of a
\* percent per minute: negative, zero, half a percent and 25 percent.
RateArgs == {-100, 0, 50, 2500}

\* DoorSimulator.set_charge_rate(rate)
SetChargeRate ==
    \E rate \in RateArgs :
        /\ battery_config' = [battery_config EXCEPT !.charge_rate = Max(0, rate)]
        /\ BatteryCall("set_rate", <<>>)
        /\ trig' = NoTrig
        /\ UNCHANGED <<battery_percent, battery_present, ac_present>>

\* DoorSimulator.set_discharge_rate(rate)
SetDischargeRate ==
    \E rate \in RateArgs :
        /\ battery_config' = [battery_config EXCEPT !.discharge_rate = Max(0, rate)]
        /\ BatteryCall("set_rate", <<>>)
        /\ trig' = NoTrig
        /\ UNCHANGED <<battery_percent, battery_present, ac_present>>

\* A started simulator with one client connected, its battery fields as
\* DoorSimulatorState(...) and BatteryConfig(...) were given them.
InitPercents == {0, 20, 21, 22, 85, 100}
InitRates == {0, 50, 2500}
InitIntervals == {0, 60}

BatteryInit ==
    /\ LinkInit
    /\ door_status = DOOR_STATE_CLOSED
    /\ flag = [f \in Flags |-> f \notin {"safety_lock", "cmd_lockout"}]
    /\ hold_time = MaxHold
    /\ inside_sensor_active = FALSE
    /\ outside_sensor_active = FALSE
    /\ total_open_cycles = InitOpenCycles
    /\ total_auto_retracts = InitAutoRetracts
    /\ auto = TRUE
    /\ schedules = NoSchedules
    /\ ready = <<>>
    /\ tasks = EmptyBag
    /\ pulses = [x \in Sensors |-> <<>>]
    /\ sent = <<>>
    /\ ops = 0
    /\ last = "init"
    /\ trig = NoTrig
    /\ allowed = "none"
    /\ reply = NoReply
    /\ rev = "none"
    /\ cyc = [pos |-> 0, ok |-> TRUE, clean |-> TRUE, toc0 |-> InitOpenCycles]
    /\ protocols = <<1>>
    /\ broken = {}
    /\ emitted = <<>>
    /\ delivered = NoDelivery
    /\ running = TRUE
    /\ stopped = FALSE
    /\ battery_percent \in InitPercents
    /\ battery_present \in BOOLEAN
    /\ ac_present \in BOOLEAN
    /\ low_battery \in BOOLEAN
    /\ battery_config \in { BatteryConfig(c, d, i) :
                               c \in InitRates, d \in InitRates, i \in InitIntervals }

BatteryNext ==
    \/ BatteryTick
    \/ SetBattery
    \/ SetAcPresent
    \/ SetBatteryPresent
    \/ SetChargeRate
    \/ SetDischargeRate

BatterySpec == BatteryInit /\ [][BatteryNext]_vars

\* The battery task is a loop of the running event loop: once its sleep is
\* over the loop body runs, so a tick that has something to do is not put
\* off for ever.
BatteryFairSpec == BatterySpec /\ WF_vars(BatteryTick)

\* --------------------------------------------------------- broadcast hub
\* state.get_settings(): the booleans as "1"/"0" and holdOpenTime, which is
\* state.hold_time as it stands, in seconds; the number is written here in
\* hundredths (750 is 7.5).
GetSettings ==
    [power |-> Wire(flag["power"]), inside |-> Wire(flag["inside"]),
     outside |-> Wire(flag["outside"]), auto |-> Wire(auto),
     safety_lock |-> Wire(flag["safety_lock"]), cmd_lockout |-> Wire(flag["cmd_lockout"]),
     autoretract |-> Wire(flag["autoretract"]), holdOpenTime |-> hold_time * 10]

\* The messages of broadcast_settings, broadcast_hardware_info,
\* broadcast_stats, broadcast_schedules and broadcast_notifications.
SettingsMsg == [kind |-> "settings", settings |-> GetSettings]
HardwareInfoMsg == [kind |-> "hw_info"]
StatsMsg ==
    [kind |-> "stats", total_open_cycles |-> total_open_cycles,
     total_auto_retracts |-> total_auto_retracts]
SchedulesMsg == [kind |-> "schedules", schedules |-> schedules]
NotificationsMsg == [kind |-> "notifications", low_battery |-> Wire(low_battery)]

\* DoorSimulator.broadcast_all()
BroadcastAll ==
    LET ms == <<SettingsMsg, BatteryMsg(battery_percent, battery_present, ac_present),
                HardwareInfoMsg, StatsMsg, SchedulesMsg, NotificationsMsg>>
    IN  /\ ~stopped
        /\ ops < MaxOps
        /\ ops' = ops + 1
        /\ sent' = <<door_status>>
        /\ emitted' = ms
        /\ delivered' = Broadcast(<<DoorStatusMsg(door_status)>> \o ms, NoDelivery)
        /\ last' = "broadcast_all"
        /\ trig' = NoTrig
        /\ allowed' = "none"
        /\ reply' = NoReply
        /\ UNCHANGED <<door_status, flag, hold_time, inside_sensor_active,
                       outside_sensor_active, total_open_cycles, total_auto_retracts, auto,
                       schedules, ready, tasks, pulses, rev, cyc>>
        /\ UNCHANGED <<ServerVars, BatteryVars, LinkVars>>

\* The transport of connection p stops accepting writes.
TransportFails ==
    \E p \in Range(protocols) \ broken :
        /\ broken' = broken \cup {p}
        /\ ServerStep("transport_fails")
        /\ UNCHANGED <<protocols, running, stopped, ready, tasks>>

\* A simulator that start() has started, no client connected yet.
HubInit ==
    /\ LinkInit
    /\ door_status = DOOR_STATE_CLOSED
    /\ flag = [f \in Flags |-> f \notin {"safety_lock", "cmd_lockout"}]
    /\ hold_time = MaxHold
    /\ inside_sensor_active = FALSE
    /\ outside_sensor_active = FALSE
    /\ total_open_cycles = InitOpenCycles
    /\ total_auto_retracts = InitAutoRetracts
    /\ auto = TRUE
    /\ schedules = NoSchedules
    /\ ready = <<>>
    /\ tasks = EmptyBag
    /\ pulses = [x \in Sensors |-> <<>>]
    /\ sent = <<>>
    /\ ops = 0
    /\ last = "init"
    /\ trig = NoTrig
    /\ allowed = "none"
    /\ reply = NoReply
    /\ rev = "none"
    /\ cyc = [pos |-> 0, ok |-> TRUE, clean |-> TRUE, toc0 |-> InitOpenCycles]
    /\ protocols = <<>>
    /\ broken = {}
    /\ emitted = <<>>
    /\ delivered = NoDelivery
    /\ running = TRUE
    /\ stopped = FALSE
    /\ BatteryDefaults

HubNext ==
    \/ Connect
    \/ Disconnect
    \/ TransportFails
    \/ ToggleBool
    \/ CmdAuto
    \/ SetAcPresent
    \/ SetBatteryPresent
    \/ BroadcastAll

HubSpec == HubInit /\ [][HubNext]_vars

\* ------------------------------------------------------- hold time on the wire
\* The wire carries the hold time in centiseconds, the state holds seconds;
\* hold_time is kept here in 0.1 s, so a wire value h is hold_time = h / 10
\* and the wire values used are whole multiples of 0.1 s.
WireHoldTimes == { 10 * k : k \in 0..MaxHold }

\* int(self.state.hold_time * 100), the centiseconds of the stored hold time
HoldTimeCentiseconds == hold_time * 10

\* Frame of a command received from the connected peer p and answered with r.
PeerQuery(label, r) ==
    /\ HostSend(label, <<>>)
    /\ reply' = r
    /\ allowed' = "none"
    /\ UNCHANGED <<flag, inside_sensor_active, outside_sensor_active, auto, ready, pulses>>

\* SET_HOLD_TIME with holdTime = h from a peer: the state stores h / 100
\* seconds and the reply carries h.
PeerSetHoldTime ==
    \E p \in Range(protocols), h \in WireHoldTimes :
        /\ PeerQuery("set_hold", [success |-> "true", holdTime |-> h])
        /\ hold_time' = h \div 10
        /\ trig' = [sensor |-> "none", holdTime |-> h]

\* GET_HOLD_TIME from a peer: the reply carries the stored hold time in
\* centiseconds.
PeerGetHoldTime ==
    \E p \in Range(protocols) :
        /\ PeerQuery("get_hold", [success |-> "true", holdTime |-> HoldTimeCentiseconds])
        /\ trig' = NoTrig
        /\ UNCHANGED hold_time

\* GET_SETTINGS from a peer: the reply carries state.get_settings().
PeerGetSettings ==
    \E p \in Range(protocols) :
        /\ PeerQuery("get_settings", [success |-> "true", settings |-> GetSettings])
        /\ trig' = NoTrig
        /\ UNCHANGED hold_time

HoldNext ==
    \/ Connect
    \/ Disconnect
    \/ PeerSetHoldTime
    \/ PeerGetHoldTime
    \/ PeerGetSettings
    \/ SetHoldTime
    \/ ToggleBool
    \/ CmdAuto

HoldSpec == HubInit /\ [][HoldNext]_vars

\* ------------------------------------------------------------ schedule CRUD
\* A time object of the wire, {"hour": H, "min": M}.
TimeObj(h, m) == [hour |-> h, min |-> m]
ZeroTime == TimeObj(0, 0)

\* daysOfWeek on the wire: a list of seven values or a legacy bitmask.
DaysList(l) == [form |-> "list", list |-> l, bitmask |-> 0]
DaysBitmask(n) == [form |-> "bitmask", list |-> <<>>, bitmask |-> n]

\* One schedule entry in protocol dict format.
WireEntry(index, enabled, days, inside, outside, is, ie, os, oe) ==
    [index |-> index, enabled |-> enabled, daysOfWeek |-> days,
     inside |-> inside, outside |-> outside,
     in_start_time |-> is, in_end_time |-> ie,
     out_start_time |-> os, out_end_time |-> oe]

\* [(days >> i) & 1 for i in range(7)]
BitmaskToList(n) == [i \in 1..7 |-> (n \div (2 ^ (i - 1))) % 2]

\* Schedule.from_dict(data), for a dict that carries every key; the index
\* is the key under which the entry is stored.
from_dict(data) ==
    LET start == IF data.inside THEN data.in_start_time
                 ELSE IF data.outside THEN data.out_start_time
                 ELSE TimeObj(6, 0)
        end == IF data.inside THEN data.in_end_time
               ELSE IF data.outside THEN data.out_end_time
               ELSE TimeObj(22, 0)
        days == IF data.daysOfWeek.form = "bitmask"
                THEN BitmaskToList(data.daysOfWeek.bitmask)
                ELSE data.daysOfWeek.list
    IN  Schedule(data.enabled = "1", days, data.inside, data.outside,
                 start.hour, start.min, end.hour, end.min)

\* Schedule.to_dict() of the entry e stored under index.
to_dict(index, e) ==
    LET start == TimeObj(e.start_hour, e.start_min)
        end == TimeObj(e.end_hour, e.end_min)
    IN  WireEntry(index, Wire(e.enabled), DaysList(e.days_of_week), e.inside, e.outside,
                  IF e.inside THEN start ELSE ZeroTime,
                  IF e.inside THEN end ELSE ZeroTime,
                  IF e.outside THEN start ELSE ZeroTime,
                  IF e.outside THEN end ELSE ZeroTime)

\* The messages of broadcast_schedule and broadcast_schedule_delete.
ScheduleMsg(index, e) == [kind |-> "schedule", schedule |-> to_dict(index, e)]
ScheduleDeleteMsg(index) == [kind |-> "schedule_delete", index |-> index]

\* state.schedules with and without the entry at index.
WithSchedule(index, e) ==
    [j \in DOMAIN schedules \cup {index} |-> IF j = index THEN e ELSE schedules[j]]
WithoutSchedule(index) ==
    [j \in DOMAIN schedules \ {index} |-> schedules[j]]

\* The schedule indexes and time windows used.
ScheduleIndexes == 0..(MaxSchedules - 1)
Windows == { <<TimeObj(6, 0), TimeObj(22, 0)>>, <<TimeObj(9, 0), TimeObj(17, 30)>> }
NoWindow == <<ZeroTime, ZeroTime>>
WireDays == { DaysList(MondayToFriday), DaysBitmask(62), DaysBitmask(127) }

\* The entries a peer sends: a window for each selected sensor, zero times
\* for an unselected one.
WireEntries ==
    { WireEntry(i, en, d, ins, outs, iw[1], iw[2], ow[1], ow[2]) :
          i \in ScheduleIndexes, en \in {"0", "1"}, d \in WireDays,
          ins \in BOOLEAN, outs \in BOOLEAN,
          iw \in Windows \cup {NoWindow}, ow \in Windows \cup {NoWindow} }

ValidWireEntries ==
    { d \in WireEntries :
          /\ (d.inside <=> <<d.in_start_time, d.in_end_time>> # NoWindow)
          /\ (d.outside <=> <<d.out_start_time, d.out_end_time>> # NoWindow) }

\* Frame of a step that works on the schedules: ms is broadcast, r is the
\* reply or the command result, t records the arguments.
ScheduleStep(label, ms, r, t) ==
    /\ ~stopped
    /\ ops < MaxOps
    /\ ops' = ops + 1
    /\ sent' = <<>>
    /\ emitted' = ms
    /\ delivered' = Broadcast(ms, NoDelivery)
    /\ last' = label
    /\ reply' = r
    /\ trig' = t
    /\ allowed' = "none"
    /\ UNCHANGED <<door_status, flag, hold_time, inside_sensor_active,
                   outside_sensor_active, total_open_cycles, total_auto_retracts, auto,
                   ready, tasks, pulses, rev, cyc>>
    /\ UNCHANGED <<ServerVars, BatteryVars, LinkVars>>

IndexTrig(index) == [sensor |-> "none", index |-> index]

\* DoorSimulator.add_schedule(schedule)
AddSchedule(index, e, label, r, t) ==
    /\ schedules' = WithSchedule(index, e)
    /\ ScheduleStep(label, <<ScheduleMsg(index, e)>>, r, t)

\* DoorSimulator.remove_schedule(index)
RemoveSchedule(index, label, r) ==
    IF index \in DOMAIN schedules
    THEN /\ schedules' = WithoutSchedule(index)
         /\ ScheduleStep(label, <<ScheduleDeleteMsg(index)>>, r, IndexTrig(index))
    ELSE /\ schedules' = schedules
         /\ ScheduleStep(label, <<>>, r, IndexTrig(index))

\* remove_schedule(index) called on the simulator; it returns nothing.
ApiRemoveSchedule ==
    \E index \in ScheduleIndexes :
        RemoveSchedule(index, "remove_schedule", NoReply)

\* The command "schedule add <sensor> <time> [days]": the entry gets the
\* lowest free index.
ScheduleAdd ==
    \E sensor \in {"inside", "outside", "both"}, w \in Windows,
       days \in {EveryDay, MondayToFriday} :
        LET idx == CHOOSE i \in 0..MaxSchedules :
                       i \notin DOMAIN schedules /\ (0..(i - 1)) \subseteq DOMAIN schedules
            e == Schedule(TRUE, days, sensor \in {"inside", "both"},
                          sensor \in {"outside", "both"},
                          w[1].hour, w[1].min, w[2].hour, w[2].min)
        IN  /\ idx < MaxSchedules
            /\ AddSchedule(idx, e, "schedule_add",
                           [success |-> "true", reason |-> "none"], IndexTrig(idx))

\* The command "schedule delete <index>"
ScheduleDelete ==
    \E index \in ScheduleIndexes :
        IF index \notin DOMAIN schedules
        THEN /\ schedules' = schedules
             /\ ScheduleStep("schedule_delete", <<>>,
                             [success |-> "false", reason |-> "not found"],
                             IndexTrig(index))
        ELSE RemoveSchedule(index, "schedule_delete",
                            [success |-> "true", reason |-> "none"])

\* SET_SCHEDULE from a peer: the entry is stored under the index it carries.
PeerSetSchedule ==
    \E p \in Range(protocols), data \in ValidWireEntries :
        AddSchedule(data.index, from_dict(data), "set_schedule",
                    [success |-> "true", schedule |-> to_dict(data.index, from_dict(data))],
                    [sensor |-> "none", index |-> data.index, schedule |-> data])

\* GET_SCHEDULE with an index from a peer.
PeerGetSchedule ==
    \E p \in Range(protocols), index \in ScheduleIndexes :
        /\ schedules' = schedules
        /\ ScheduleStep("get_schedule", <<>>,
                        IF index \in DOMAIN schedules
                        THEN [success |-> "true",
                              schedule |-> to_dict(index, schedules[index])]
                        ELSE [success |-> "false", reason |-> "not found"],
                        IndexTrig(index))

\* DELETE_SCHEDULE with an index from a peer.
PeerDeleteSchedule ==
    \E p \in Range(protocols), index \in ScheduleIndexes :
        RemoveSchedule(index, "delete_schedule", [success |-> "true", reason |-> "none"])

CrudNext ==
    \/ Connect
    \/ Disconnect
    \/ PeerSetSchedule
    \/ PeerGetSchedule
    \/ PeerDeleteSchedule
    \/ ScheduleAdd
    \/ ScheduleDelete
    \/ ApiRemoveSchedule

CrudSpec == HubInit /\ [][CrudNext]_vars

\* ------------------------------------------------------------ wire framing
\* Bytes are one-character strings; a stands for any byte other than a brace,
\* a quote or a backslash.
LBrace == "{"
RBrace == "}"
Quote == "\""
Backslash == "\\"

\* The scan of _find_json_end from position i on: depth counts open braces
\* outside strings.  The result is the number of bytes up to and including
\* the brace that closes the object, 0 for none.
RECURSIVE ScanIgnoringStrings(_, _, _)
ScanIgnoringStrings(s, i, depth) ==
    IF i > Len(s) THEN 0
    ELSE IF s[i] = LBrace THEN ScanIgnoringStrings(s, i + 1, depth + 1)
    ELSE IF s[i] = RBrace
         THEN IF depth = 1 THEN i ELSE ScanIgnoringStrings(s, i + 1, depth - 1)
    ELSE ScanIgnoringStrings(s, i + 1, depth)

RECURSIVE Scan(_, _, _, _, _)
Scan(s, i, depth, in_string, escape) ==
    IF i > Len(s) THEN 0
    ELSE IF escape THEN Scan(s, i + 1, depth, in_string, FALSE)
    ELSE IF s[i] = Backslash THEN Scan(s, i + 1, depth, in_string, TRUE)
    ELSE IF s[i] = Quote THEN Scan(s, i + 1, depth, ~in_string, FALSE)
    ELSE IF in_string THEN Scan(s, i + 1, depth, in_string, FALSE)
    ELSE IF s[i] = LBrace THEN Scan(s, i + 1, depth + 1, in_string, FALSE)
    ELSE IF s[i] = RBrace
         THEN IF depth = 1 THEN i ELSE Scan(s, i + 1, depth - 1, in_string, FALSE)
    ELSE Scan(s, i + 1, depth, in_string, FALSE)

\* Variant of _find_json_end that counts braces inside strings too.
find_json_end_CountsBracesInStrings(s) ==
    IF s = <<>> \/ s[1] # LBrace THEN 0 ELSE ScanIgnoringStrings(s, 1, 0)

\* _find_json_end(s): None (0 here) unless s starts with a brace and holds
\* the brace that closes it.
find_json_end(s) ==
    IF s = <<>> \/ s[1] # LBrace THEN 0 ELSE Scan(s, 1, 0, FALSE, FALSE)

\* The loop of data_received: objects are taken off the front of the buffer
\* while one is complete.
RECURSIVE Extract(_, _)
Extract(buf, out) ==
    LET end == find_json_end(buf)
    IN  IF end = 0 THEN [buffer |-> buf, out |-> out]
        ELSE Extract(SubSeq(buf, end + 1, Len(buf)), Append(out, SubSeq(buf, 1, end)))

\* data_received(data) with the next n bytes of the peer's stream.
DataReceived ==
    \E n \in 1..Len(inbound) :
        LET r == Extract(buffer \o SubSeq(inbound, 1, n), <<>>)
        IN  /\ buffer' = r.buffer
            /\ framed' = framed \o r.out
            /\ inbound' = SubSeq(inbound, n + 1, Len(inbound))
            /\ last' = "data_received"
            /\ UNCHANGED <<door_status, flag, hold_time, inside_sensor_active,
                           outside_sensor_active, total_open_cycles, total_auto_retracts,
                           auto, schedules, ready, tasks, pulses, sent, ops, trig, allowed,
                           reply, rev, cyc, emitted, delivered>>
            /\ UNCHANGED <<ServerVars, BatteryVars>>

\* Valid JSON objects: a flat one, a nested one, one whose string holds a
\* closing brace, one whose string holds an escaped quote and an opening brace.
WireObjects ==
    { <<LBrace, "a", RBrace>>,
      <<LBrace, "a", LBrace, "a", RBrace, RBrace>>,
      <<LBrace, Quote, RBrace, Quote, RBrace>>,
      <<LBrace, Quote, Backslash, Quote, LBrace, Quote, RBrace>> }

RECURSIVE Concat(_)
Concat(ss) == IF ss = <<>> THEN <<>> ELSE Head(ss) \o Concat(Tail(ss))

\* The streams a peer sends: up to MaxObjects objects, one after the other.
WireStreams == UNION { [1..n -> WireObjects] : n \in 0..MaxObjects }

\* A started simulator with one connection whose peer is about to send the
\* objects kept in trig.
FrameInit ==
    /\ door_status = DOOR_STATE_CLOSED
    /\ flag = [f \in Flags |-> f \notin {"safety_lock", "cmd_lockout"}]
    /\ hold_time = MaxHold
    /\ inside_sensor_active = FALSE
    /\ outside_sensor_active = FALSE
    /\ total_open_cycles = InitOpenCycles
    /\ total_auto_retracts = InitAutoRetracts
    /\ auto = TRUE
    /\ schedules = NoSchedules
    /\ ready = <<>>
    /\ tasks = EmptyBag
    /\ pulses = [x \in Sensors |-> <<>>]
    /\ sent = <<>>
    /\ ops = 0
    /\ last = "init"
    /\ allowed = "none"
    /\ reply = NoReply
    /\ rev = "none"
    /\ cyc = [pos |-> 0, ok |-> TRUE, clean |-> TRUE, toc0 |-> InitOpenCycles]
    /\ protocols = <<1>>
    /\ broken = {}
    /\ emitted = <<>>
    /\ delivered = NoDelivery
    /\ running = TRUE
    /\ stopped = FALSE
    /\ BatteryDefaults
    /\ \E objs \in WireStreams :
           /\ trig = [sensor |-> "none", objects |-> objs]
           /\ inbound = Concat(objs)
    /\ buffer = <<>>
    /\ framed = <<>>

FrameNext == DataReceived

FrameSpec == FrameInit /\ [][FrameNext]_vars

\* --------------------------------------------------------- control channel
\* Characters are one-character strings; the prefixes "OK: " and "ERROR: "
\* are kept as one element each.
Newline == "\n"
MessageChars == {"a", "n", Newline, Backslash}

\* The messages a command result carries.
Messages == UNION { [1..n -> MessageChars] : n \in 0..MaxLen }

\* handle_control_client: the line written for a command result,
\* f"OK: {result.message}\n" or f"ERROR: {result.message}\n".
ControlResponse(success, message) ==
    <<IF success THEN "OK: " ELSE "ERROR: ">> \o message \o <<Newline>>

\* str.replace(old, new) for a two-character old and a one-character new,
\* left to right without overlap.
RECURSIVE Replace(_, _, _)
Replace(str, old, new) ==
    IF Len(str) < 2 THEN str
    ELSE IF SubSeq(str, 1, 2) = old
         THEN <<new>> \o Replace(SubSeq(str, 3, Len(str)), old, new)
    ELSE <<str[1]>> \o Replace(Tail(str), old, new)

\* response_str[4:].replace('\\n', '\n').replace('\\\\', '\\') of send_command
Unescape(str) ==
    Replace(Replace(str, <<Backslash, "n">>, Newline), <<Backslash, Backslash>>, Backslash)

\* decoded.split("\n")[0]: the characters before the first newline.
RECURSIVE FirstLine(_)
FirstLine(str) ==
    IF str = <<>> \/ Head(str) = Newline THEN <<>>
    ELSE <<Head(str)>> \o FirstLine(Tail(str))

\* send_command: the first line that starts with OK: or ERROR: gives the
\* success and, unescaped, the message.
ParseResponse(wire) ==
    LET line == FirstLine(wire)
    IN  [success |-> YesNo(Head(line) = "OK: "), message |-> Unescape(Tail(line))]

\* One round of handle_control_client: a command line is read, executed,
\* and its result written; the result is kept in trig, the bytes in reply.
ControlCommand ==
    \E success \in BOOLEAN, message \in Messages :
        /\ HostSend("control", <<>>)
        /\ trig' = [sensor |-> "none", success |-> YesNo(success), message |-> message]
        /\ reply' = [success |-> "none", wire |-> ControlResponse(success, message)]
        /\ allowed' = "none"
        /\ UNCHANGED <<flag, hold_time, inside_sensor_active, outside_sensor_active, auto,
                       ready, pulses>>

\* send_command on the client side reads the response of the command it sent.
SendCommand ==
    /\ last = "control"
    /\ reply' = ParseResponse(reply.wire)
    /\ last' = "send_command"
    /\ UNCHANGED <<door_status, flag, hold_time, inside_sensor_active,
                   outside_sensor_active, total_open_cycles, total_auto_retracts, auto,
                   schedules, ready, tasks, pulses, sent, ops, trig, allowed, rev, cyc,
                   emitted, delivered>>
    /\ UNCHANGED <<ServerVars, BatteryVars, LinkVars>>

CtlNext ==
    \/ ControlCommand
    \/ SendCommand

CtlSpec == HubInit /\ [][CtlNext]_vars

LifeNext ==
    \/ Next
    \/ StartServer
    \/ Connect
    \/ Disconnect
    \/ StopServer

LifeSpec == Init /\ [][LifeNext]_vars

\* The event loop runs every task it was handed and wakes every sleeper whose
\* time is over: a coroutine waiting to start, a motion coroutine in any of
\* its sleeps and a sensor timer are not put off for ever.
LoopFairness ==
    /\ WF_vars(Start)
    /\ WF_vars(WakeRise)
    /\ WF_vars(WakeSlow)
    /\ WF_vars(WakePoll)
    /\ WF_vars(WakeTop)
    /\ WF_vars(WakeMid)
    /\ WF_vars(DeactivateSensorAfter)

FairSpec == Spec /\ LoopFairness

FairLifeSpec == LifeSpec /\ LoopFairness

\* ------------------------------------------------- schedule evaluation alone
\* The two schedule functions applied to bounded inputs: the state holds a
\* schedule dictionary and auto, a step evaluates one function at one sensor
\* and local time and keeps the arguments in trig and the result in allowed.
\* The functions change no state, so one evaluation per run shows them all.
ScheduleHours == {0, 6, 9, 17, 22}
ScheduleMinutes == {0, 30}
WindowTimes == {<<6, 0>>, <<9, 0>>, <<17, 30>>, <<22, 0>>}

ScheduleEntries ==
    { Schedule(en, d, i, o, st[1], st[2], et[1], et[2]) :
          en \in BOOLEAN, d \in {MondayToFriday, EveryDay, SundayOnly},
          i \in BOOLEAN, o \in BOOLEAN, st \in WindowTimes, et \in WindowTimes }

\* Entries of the dictionaries that hold more than one.
CoreEntries ==
    { Schedule(TRUE, MondayToFriday, TRUE, FALSE, 9, 0, 17, 30),
      Schedule(TRUE, EveryDay, FALSE, TRUE, 22, 0, 6, 0),
      Schedule(FALSE, EveryDay, TRUE, TRUE, 6, 0, 22, 0) }

ScheduleDicts ==
    {NoSchedules}
        \cup { [i \in {0} |-> e] : e \in ScheduleEntries }
        \cup UNION { [0..(n - 1) -> CoreEntries] : n \in 2..MaxSchedules }

SchedInit ==
    /\ LinkInit
    /\ ServerInit
    /\ BatteryDefaults
    /\ door_status = DOOR_STATE_CLOSED
    /\ flag = [f \in Flags |-> f \notin {"safety_lock", "cmd_lockout"}]
    /\ hold_time = MaxHold
    /\ inside_sensor_active = FALSE
    /\ outside_sensor_active = FALSE
    /\ total_open_cycles = InitOpenCycles
    /\ total_auto_retracts = InitAutoRetracts
    /\ auto \in BOOLEAN
    /\ schedules \in ScheduleDicts
    /\ ready = <<>>
    /\ tasks = EmptyBag
    /\ pulses = [x \in Sensors |-> <<>>]
    /\ sent = <<>>
    /\ ops = 0
    /\ last = "init"
    /\ trig = NoTrig
    /\ allowed = "none"
    /\ reply = NoReply
    /\ rev = "none"
    /\ cyc = [pos |-> 0, ok |-> TRUE, clean |-> TRUE, toc0 |-> InitOpenCycles]

SchedFrame ==
    UNCHANGED <<door_status, flag, hold_time, inside_sensor_active, outside_sensor_active,
                total_open_cycles, total_auto_retracts, auto, schedules, ready, tasks,
                pulses, sent, ops, reply, rev, cyc, emitted, delivered, ServerVars,
                BatteryVars, LinkVars>>

\* schedules[i].is_sensor_allowed(sensor, hour, minute, weekday)
CheckEntry ==
    \E i \in DOMAIN schedules, sensor \in Sensors, hour \in ScheduleHours,
       minute \in ScheduleMinutes, weekday \in Weekdays :
        /\ last = "init"
        /\ allowed' = YesNo(is_sensor_allowed(schedules[i], sensor, hour, minute, weekday))
        /\ trig' = [sensor |-> sensor, hour |-> hour, minute |-> minute,
                    weekday |-> weekday, entry |-> i]
        /\ last' = "check_entry"
        /\ SchedFrame

\* state.is_sensor_allowed_by_schedule(sensor) at local time hour:minute, weekday
CheckSchedule ==
    \E sensor \in Sensors, hour \in ScheduleHours, minute \in ScheduleMinutes,
       weekday \in Weekdays :
        LET now == [hour |-> hour, minute |-> minute, weekday |-> weekday]
        IN  /\ last = "init"
            /\ allowed' = YesNo(is_sensor_allowed_by_schedule(auto, schedules, sensor, now))
            /\ trig' = Trig(sensor, now)
            /\ last' = "check_schedule"
            /\ SchedFrame

SchedNext ==
    \/ CheckEntry
    \/ CheckSchedule

SchedSpec == SchedInit /\ [][SchedNext]_vars

\* ================================================================ claims
Blocking == is_sensor_blocking_close(Cur)

\* A step in which no new reversal starts and no auto-retract happens.
Quiet == rev' \in {rev, "none"} /\ total_auto_retracts' = total_auto_retracts

\* Number of suspended coroutines of bag b that sleep at one of pcs.
NumAt(b, pcs) ==
    LET S == {t \in BagToSet(b) : t.pc \in pcs}
    IN  BagCardinality([t \in S |-> b[t]])

\* C1: at most one door-motion activity exists at any time; a command,
\* trigger or reversal never leaves two motion coroutines running side by side.
C1_SingleMotionActivity == BagCardinality(tasks) <= 1

\* C2: inside_sensor_active and outside_sensor_active are never both true.
C2_SensorsMutuallyExclusive == ~(inside_sensor_active /\ outside_sensor_active)

\* C3: a close command in RISING sets CLOSING_MID_OPEN at once and the phases
\* seen from there are CLOSING_MID_OPEN then CLOSED; one in SLOWING sets
\* CLOSING_TOP_OPEN and the door goes through CLOSING_MID_OPEN to CLOSED.
\* (Steps in which a later command reverses again or an auto-retract fires
\* are left out: the claim is about the close running on.)
C3_CloseReversal ==
    [][ /\ (last' = "close_reverse" /\ door_status = DOOR_STATE_RISING)
              => sent' = <<DOOR_STATE_CLOSING_MID_OPEN>>
        /\ (last' = "close_reverse" /\ door_status = DOOR_STATE_SLOWING)
              => sent' = <<DOOR_STATE_CLOSING_TOP_OPEN>>
        /\ (rev = "close_from_rising" /\ Quiet /\ sent' # <<>>)
              => door_status = DOOR_STATE_CLOSING_MID_OPEN /\ sent' = <<DOOR_STATE_CLOSED>>
        /\ (rev = "close_from_slowing" /\ Quiet /\ sent' # <<>>)
              => \/ door_status = DOOR_STATE_CLOSING_TOP_OPEN
                    /\ sent' = <<DOOR_STATE_CLOSING_MID_OPEN>>
                 \/ door_status = DOOR_STATE_CLOSING_MID_OPEN
                    /\ sent' = <<DOOR_STATE_CLOSED>>
      ]_vars

\* C4: an open command while closing resumes at the mirror phase (SLOWING
\* from CLOSING_TOP_OPEN, RISING from CLOSING_MID_OPEN) and the door then
\* goes through the rest of the open sequence.
C4_OpenReversal ==
    [][ /\ (last' = "open_reverse" /\ door_status = DOOR_STATE_CLOSING_TOP_OPEN)
              => sent' = <<DOOR_STATE_SLOWING>>
        /\ (last' = "open_reverse" /\ door_status = DOOR_STATE_CLOSING_MID_OPEN)
              => sent' = <<DOOR_STATE_RISING>>
        /\ (rev = "open_from_top" /\ Quiet /\ sent' # <<>>)
              => door_status = DOOR_STATE_SLOWING /\ sent'[1] \in Open
        /\ (rev = "open_from_mid" /\ Quiet /\ sent' # <<>>)
              => \/ door_status = DOOR_STATE_RISING /\ sent' = <<DOOR_STATE_SLOWING>>
                 \/ door_status = DOOR_STATE_SLOWING /\ sent'[1] \in Open
      ]_vars

\* C5: an open command in RISING, SLOWING, HOLDING or KEEPUP and a close
\* command in CLOSED or a closing phase change neither the phase nor the
\* counters, broadcast nothing and leave every suspended coroutine (every
\* running phase timer) as it was.
NoOpCommand ==
    /\ ready # <<>>
    /\ ready' = Tail(ready)
    /\ \/ Head(ready).op = "open" /\ door_status \in Open \cup Opening
       \/ Head(ready).op = "close" /\ door_status \in {DOOR_STATE_CLOSED} \cup Closing

C5_NoOpCommands ==
    [][ NoOpCommand =>
            /\ UNCHANGED <<door_status, total_open_cycles, total_auto_retracts, tasks>>
            /\ sent' = <<>>
      ]_vars

C5_Witness ==
    /\ last = "open_noop"
    /\ door_status = DOOR_STATE_RISING
    /\ BagCardinality(tasks) = 1

\* C6: in the hold loop a poll that finds a sensor blocking leaves the
\* remaining hold time at the full hold_time, the loop is left only when no
\* sensor is blocking and no hold time remains, and leaving it in HOLDING
\* starts the close sequence.
C6_HoldExtension ==
    [][ /\ (last' \in {"hold_poll", "holding"} /\ Blocking)
              => \E t \in BagToSet(tasks') : t.pc = "hold" /\ t.rem = hold_time
        /\ (last' = "hold_poll" /\ ~Blocking)
              => \E t \in BagToSet(tasks') : t.pc = "hold" /\ t.rem > 0
        /\ last' = "hold_expired" => ~Blocking
        /\ (last' = "hold_expired" /\ door_status = DOOR_STATE_HOLDING)
              => door_status' = DOOR_STATE_CLOSING_TOP_OPEN
        /\ (door_status = DOOR_STATE_HOLDING /\ Blocking
                /\ door_status' = DOOR_STATE_CLOSING_TOP_OPEN)
              => last' \in {"close_start"}
      ]_vars

C6_Witness ==
    /\ last = "hold_poll"
    /\ Blocking
    /\ door_status = DOOR_STATE_HOLDING
    /\ hold_time > 1
    /\ \E t \in BagToSet(tasks) : t.pc = "hold" /\ t.rem = hold_time

\* C7: when a closing timer ends with a sensor blocking and autoretract on,
\* the close is given up (no CLOSED, no total_open_cycles increment, one
\* closing coroutine fewer), total_auto_retracts grows by exactly 1 and both
\* sensor-active flags are false afterwards.
C7_AutoRetract ==
    [][ /\ (last' \in {"retract_top", "retract_mid"})
              => /\ total_auto_retracts' = total_auto_retracts + 1
                 /\ total_open_cycles' = total_open_cycles
                 /\ door_status' # DOOR_STATE_CLOSED
                 /\ ~inside_sensor_active' /\ ~outside_sensor_active'
                 /\ NumAt(tasks', {"ctop", "cmid"}) = NumAt(tasks, {"ctop", "cmid"}) - 1
        /\ (last' \in {"top_done", "closed"}) => ~(Blocking /\ flag["autoretract"])
        /\ (total_auto_retracts' # total_auto_retracts)
              => last' \in {"retract_top", "retract_mid"}
      ]_vars

C7_Witness ==
    /\ last = "retract_mid"
    /\ total_auto_retracts = InitAutoRetracts + 1
    /\ total_open_cycles = InitOpenCycles
    /\ ~inside_sensor_active /\ ~outside_sensor_active

\* C8: an auto-retract starts the new open cycle at RISING and broadcasts
\* RISING, in CLOSING_TOP_OPEN as well as in CLOSING_MID_OPEN.
C8_RetractStartsRising ==
    [][ (\/ last' = "retract_top" /\ door_status = DOOR_STATE_CLOSING_TOP_OPEN
         \/ last' = "retract_mid" /\ door_status = DOOR_STATE_CLOSING_MID_OPEN)
            => sent' = <<DOOR_STATE_RISING>>
      ]_vars

C10_OpenCycleCount ==
    /\ [](cyc.clean =>
            total_open_cycles = cyc.toc0 + (IF cyc.pos = 6 THEN 1 ELSE 0))
    /\ [][ /\ (sent' # <<>> /\ door_status' = DOOR_STATE_CLOSED)
                 => total_open_cycles' = total_open_cycles + 1
           /\ (total_open_cycles' # total_open_cycles)
                 => /\ total_open_cycles' = total_open_cycles + 1
                    /\ sent' = <<DOOR_STATE_CLOSED>>
         ]_vars

C10_Witness ==
    /\ last = "closed"
    /\ cyc.clean
    /\ cyc.pos = 6
    /\ total_open_cycles = InitOpenCycles + 1

\* C11: total_open_cycles and total_auto_retracts never decrease, whatever
\* commands, triggers, reversals and auto-retracts happen.
C11_CountersMonotonic ==
    [][ /\ total_open_cycles' >= total_open_cycles
        /\ total_auto_retracts' >= total_auto_retracts
      ]_vars

C11_Witness ==
    /\ total_open_cycles > InitOpenCycles
    /\ total_auto_retracts > InitAutoRetracts

\* C12: once the door is in KEEPUP its phase stays KEEPUP until a close
\* command runs; nothing else (a timer, hold_time, a sensor) moves it.
C12_KeepupUntilClose ==
    [][ (door_status = DOOR_STATE_KEEPUP /\ door_status' # DOOR_STATE_KEEPUP)
            => last' = "close_start"
      ]_vars

\* C13: every change of the door phase is followed by a door-status
\* broadcast carrying the new phase before the phase changes again: a step
\* that changes the phase broadcasts, and the last broadcast of any step
\* carries the phase the step leaves behind.
C13_PhaseChangeBroadcast ==
    [][ /\ door_status' # door_status => sent' # <<>>
        /\ sent' # <<>> => sent'[Len(sent')] = door_status'
      ]_vars

C13_Witness ==
    /\ last = "hold_expired"
    /\ sent = <<DOOR_STATE_HOLDING, DOOR_STATE_CLOSING_TOP_OPEN>>
    /\ door_status = DOOR_STATE_CLOSING_TOP_OPEN

\* The gating flags of the claims: a trigger of this sensor must be dropped.
GateClosed(sensor) ==
    \/ ~flag["power"]
    \/ flag["cmd_lockout"]
    \/ ~flag[sensor]
    \/ sensor = "outside" /\ flag["safety_lock"]

\* C14: a simulator-side sensor trigger made while power is off, cmd_lockout
\* is on, the sensor is disabled or (outside sensor) safety_lock is on starts
\* no door motion and leaves the phase as it was.
C14_GatedTriggerDropped ==
    [][ (trig'.sensor # "none" /\ GateClosed(trig'.sensor))
            => ready' = ready /\ door_status' = door_status
      ]_vars

\* What the claims call a schedule entry permitting a sensor at a local
\* time: enabled, today's bit set in the Sunday-first day mask, the sensor's
\* flag set, and the minute of the day inside [start, end), a window with
\* start > end being [start, 24:00) together with [0, end).
MaskIndex == [wd \in Weekdays |-> IF wd = 6 THEN 0 ELSE wd + 1]

InWindow(cur, start, end) ==
    IF start > end
    THEN cur \in (start..1439) \cup (0..(end - 1))
    ELSE cur \in start..(end - 1)

EntryPermits(e, sensor, t) ==
    /\ e.enabled
    /\ e.days_of_week[MaskIndex[t.weekday] + 1] = 1
    /\ IF sensor = "inside" THEN e.inside ELSE e.outside
    /\ InWindow(t.hour * 60 + t.minute,
                e.start_hour * 60 + e.start_min, e.end_hour * 60 + e.end_min)

\* C15: with auto on, at least one schedule and no entry permitting the
\* sensor at the current local time, a sensor trigger on a CLOSED door starts
\* no motion and the door stays CLOSED.
C15_ScheduleDeniedTriggerDropped ==
    [][ ( /\ trig'.sensor # "none"
          /\ door_status = DOOR_STATE_CLOSED
          /\ auto
          /\ DOMAIN schedules # {}
          /\ \A i \in DOMAIN schedules : ~EntryPermits(schedules[i], trig'.sensor, trig') )
            => ready' = ready /\ door_status' = DOOR_STATE_CLOSED
      ]_vars

\* C16: a sensor trigger received in a phase other than CLOSED does not
\* change the phase and launches no motion: the step that receives it leaves
\* phase and motion coroutines alone, and so does the coroutine it created,
\* started while the door is still in that phase.
C16_MidMotionTriggerInert ==
    [][ /\ (trig'.sensor # "none" /\ door_status # DOOR_STATE_CLOSED)
              => UNCHANGED <<door_status, tasks>>
        /\ ( /\ ready # <<>>
             /\ ready' = Tail(ready)
             /\ Head(ready).by \in {"trigger", "activate"}
             /\ Head(ready).at # DOOR_STATE_CLOSED
             /\ Head(ready).at = door_status )
              => UNCHANGED <<door_status, tasks>> /\ sent' = <<>>
      ]_vars

\* C17: a schedule entry permits a sensor trigger exactly when it is enabled,
\* the local weekday (Monday 0 .. Sunday 6, turned into the Sunday-first mask
\* index) is set in its day mask, its flag for the sensor is true and the
\* time lies in [start, end), a window with start > end being
\* [start, 24:00) together with [0, end).
C17_EntryPermits ==
    last = "check_entry"
        => (allowed = "yes" <=> EntryPermits(schedules[trig.entry], trig.sensor, trig))

\* An entry whose window wraps (22:00 to 06:00) allows a time after midnight.
C17_Witness ==
    /\ last = "check_entry"
    /\ allowed = "yes"
    /\ schedules[trig.entry].start_hour = 22
    /\ schedules[trig.entry].end_hour = 6
    /\ trig.hour = 0
    /\ trig.weekday = 6

\* C18: schedule enforcement allows every trigger when auto is off or no
\* schedule exists, and otherwise allows exactly the triggers that at least
\* one entry permits.
C18_ScheduleEnforcement ==
    last = "check_schedule"
        => (allowed = "yes" <=>
                \/ ~auto
                \/ DOMAIN schedules = {}
                \/ \E i \in DOMAIN schedules : EntryPermits(schedules[i], trig.sensor, trig))

\* With auto off a trigger is allowed although schedules exist and none permits it.
C18_Witness ==
    /\ last = "check_schedule"
    /\ allowed = "yes"
    /\ ~auto
    /\ DOMAIN schedules = {0, 1}
    /\ \A i \in DOMAIN schedules : ~EntryPermits(schedules[i], trig.sensor, trig)

\* When the claims call one sensor blocking close.
SensorBlocks(sensor) ==
    /\ IF sensor = "inside" THEN inside_sensor_active ELSE outside_sensor_active
    /\ flag[sensor]
    /\ ~flag["cmd_lockout"]
    /\ sensor = "outside" => ~flag["safety_lock"]

DoorBlocked == \E sensor \in Sensors : SensorBlocks(sensor)

\* C19: a sensor is blocking close exactly when it is active and enabled,
\* cmd_lockout is off and (outside sensor) safety_lock is off, and the door is
\* blocked exactly when some sensor is: the blocking check agrees with that
\* in every state, and the close sequence and the hold loop act on it (an
\* auto-retract only when blocked, a closing phase completed or the hold left
\* only when not blocked, autoretract being on).
C19_SensorBlockingClose ==
    /\ [](Blocking <=> DoorBlocked)
    /\ [][ /\ last' \in {"retract_top", "retract_mid"} => DoorBlocked /\ flag["autoretract"]
           /\ last' \in {"top_done", "closed"} => ~(DoorBlocked /\ flag["autoretract"])
           /\ last' = "hold_expired" => ~DoorBlocked
         ]_vars

\* The door has closed with autoretract on and the outside sensor active and
\* enabled, because safety_lock keeps that sensor from blocking.
C19_Witness ==
    /\ last = "closed"
    /\ flag["autoretract"]
    /\ outside_sensor_active
    /\ flag["outside"]
    /\ flag["safety_lock"]
    /\ ~flag["cmd_lockout"]

\* C20: a door-motion command of a peer received while power is off or
\* cmd_lockout is on is answered with success "false" and a reason that
\* applies, changes no state (the door phase and every other field stay as
\* they were, no motion is started) and makes no door-status broadcast.
C20_PeerCommandRefused ==
    [][ (reply'.success # "none" /\ (~flag["power"] \/ flag["cmd_lockout"]))
            => /\ reply'.success = "false"
               /\ reply'.reason = "power" => ~flag["power"]
               /\ reply'.reason = "lockout" => flag["cmd_lockout"]
               /\ reply'.reason \in {"power", "lockout"}
               /\ sent' = <<>>
               /\ UNCHANGED <<door_status, flag, hold_time, inside_sensor_active,
                              outside_sensor_active, total_open_cycles, total_auto_retracts,
                              auto, schedules, ready, tasks, pulses>>
      ]_vars

C20_Witness ==
    /\ last = "peer"
    /\ reply = [success |-> "false", reason |-> "lockout"]
    /\ flag["power"]
    /\ flag["cmd_lockout"]
    /\ door_status = DOOR_STATE_CLOSED
    /\ ready = <<>>

\* C21: a motion in flight belongs to the simulator and to no peer: a step in
\* which a peer disconnects leaves every suspended motion coroutine in place,
\* so the motion goes on to its terminal phase.
C21_MotionSurvivesDisconnect ==
    [][last' = "disconnect" => tasks' = tasks]_vars

\* C22: once stop() has returned there is no further phase change, counter
\* change, battery change or broadcast.
C22_NothingAfterShutdown ==
    [][stopped => /\ door_status' = door_status
                  /\ total_open_cycles' = total_open_cycles
                  /\ total_auto_retracts' = total_auto_retracts
                  /\ battery_percent' = battery_percent
                  /\ delivered' = NoDelivery]_vars

\* C25: battery_percent stays within 0 .. 100, after every tick and after
\* set_battery with any argument.
C25_BatteryWithinRange == battery_percent \in 0..100

\* set_battery(150) left the percent at 100.
C25_Witness ==
    /\ last = "set_battery"
    /\ trig = [sensor |-> "none", percent |-> 150]
    /\ battery_percent = 100

\* The latest step sent a low-battery notification.
Notified == \E i \in 1..Len(emitted) : emitted[i].kind = "low_battery"

\* C26: a step sends a low-battery notification exactly when it takes the
\* percent from above the threshold to the threshold or below while the
\* low_battery setting is on.
C26_LowBatteryNotification ==
    [][Notified' <=> /\ low_battery
                     /\ battery_percent > LOW_BATTERY_THRESHOLD
                     /\ battery_percent' <= LOW_BATTERY_THRESHOLD]_vars

\* A discharge tick crossed the threshold and notified.
C26_Witness ==
    /\ last = "tick"
    /\ Notified
    /\ battery_percent = LOW_BATTERY_THRESHOLD

\* The integer part of min(100, percent + charge_rate * update_interval / 60).
ChargedPercent ==
    Min(100 * Scale,
        battery_percent * Scale
            + Delta(battery_config.charge_rate, battery_config.update_interval)) \div Scale

\* C27: a charging tick stores the new percent and broadcasts it only if the
\* integer part of the new value differs from the stored percent; otherwise it
\* changes nothing and broadcasts nothing.
C27_ChargeTickIntegerPart ==
    [][(last' = "tick" /\ battery_present /\ ac_present /\ battery_config.charge_rate > 0)
          => IF ChargedPercent # battery_percent
             THEN /\ battery_percent' = ChargedPercent
                  /\ emitted' = <<BatteryMsg(ChargedPercent, battery_present, ac_present)>>
             ELSE /\ battery_percent' = battery_percent
                  /\ emitted' = <<>>]_vars

\* C28: a tick changes no percent and broadcasts nothing when there is no
\* battery, when AC is present and charge_rate is 0, or when AC is absent and
\* discharge_rate is 0.
C28_IdleTick ==
    [][(/\ last' = "tick"
        /\ \/ ~battery_present
           \/ ac_present /\ battery_config.charge_rate = 0
           \/ ~ac_present /\ battery_config.discharge_rate = 0)
          => battery_percent' = battery_percent /\ emitted' = <<>>]_vars

\* A tick with AC present and charge_rate 0 did nothing, although the battery
\* is not full and discharge_rate is positive.
C28_Witness ==
    /\ last = "tick"
    /\ battery_present
    /\ ac_present
    /\ battery_config.charge_rate = 0
    /\ battery_config.discharge_rate > 0
    /\ battery_percent \in 1..99
    /\ emitted = <<>>

\* Everything the latest step broadcast, in order.
AllEmitted == DoorStatusMsgs(sent) \o emitted

\* Connections registered and able to take a write.
Healthy == Range(protocols) \ broken

\* C23: every broadcast of a step is delivered exactly once, in order, to
\* every connection registered when the step began, and to no other: a
\* connection registered by the step or later receives nothing of it.
C23_BroadcastFanOut ==
    [][\A p \in Peers :
          delivered'[p] = IF p \in Healthy THEN AllEmitted' ELSE <<>>]_vars

\* Two clients are connected and each received the one broadcast of the step.
C23_Witness ==
    /\ Len(protocols) = 2
    /\ broken = {}
    /\ Len(emitted) = 1
    /\ \A p \in Range(protocols) : delivered[p] = emitted

CurrentValue(attr) ==
    CASE attr = "auto" -> auto
      [] attr = "ac_present" -> ac_present
      [] attr = "battery_present" -> battery_present
      [] OTHER -> flag[attr]

\* The latest step set the boolean trig.attr to the value it already had.
SetToSame == "attr" \in DOMAIN trig' /\ trig'.value = CurrentValue(trig'.attr)

\* The state and the counters are as they were.
NothingChanged ==
    UNCHANGED <<door_status, flag, hold_time, inside_sensor_active, outside_sensor_active,
                total_open_cycles, total_auto_retracts, auto, schedules, BatteryVars>>

C30_HoldTimeRoundTrip ==
    [][last = "set_hold"
          => /\ hold_time * 10 = trig.holdTime
             /\ (last' = "get_hold" => reply'.holdTime = trig.holdTime)
             /\ (last' = "get_settings"
                    => reply'.settings.holdOpenTime = 100 * trig.holdTime)]_vars

\* The entry a peer expects back for the entry d it set: d itself, a legacy
\* bitmask written as the list of its bits, Sunday first.
Normalized(d) ==
    IF d.daysOfWeek.form = "bitmask"
    THEN [d EXCEPT !.daysOfWeek = DaysList(BitmaskToList(d.daysOfWeek.bitmask))]
    ELSE d

\* C31: a GET_SCHEDULE that follows a SET_SCHEDULE of the same index replies
\* with the entry that was set, a legacy bitmask normalized into the list of
\* its seven bits; a GET_SCHEDULE that follows a DELETE_SCHEDULE of the same
\* index replies with a failure.
C31_ScheduleRoundTrip ==
    [][/\ (last = "set_schedule" /\ last' = "get_schedule" /\ trig'.index = trig.index)
           => /\ reply'.success = "true"
              /\ reply'.schedule = Normalized(trig.schedule)
       /\ (last = "delete_schedule" /\ last' = "get_schedule" /\ trig'.index = trig.index)
           => reply'.success = "false"]_vars

\* C32: deleting a schedule index that does not exist, by the command, by
\* remove_schedule or by a peer's DELETE_SCHEDULE, leaves the schedules as
\* they were and does not report a failure.
C32_DeleteMissingIsSuccess ==
    [][(last' \in {"schedule_delete", "remove_schedule", "delete_schedule"}
            /\ trig'.index \notin DOMAIN schedules)
          => /\ schedules' = schedules
             /\ reply'.success # "false"]_vars

\* The objects of objs that lie wholly within the first n bytes of their
\* concatenation.
RECURSIVE Arrived(_, _)
Arrived(objs, n) ==
    IF objs = <<>> \/ Len(Head(objs)) > n THEN <<>>
    ELSE <<Head(objs)>> \o Arrived(Tail(objs), n - Len(Head(objs)))

RECURSIVE Newlines(_)
Newlines(str) ==
    IF str = <<>> THEN 0
    ELSE (IF Head(str) = Newline THEN 1 ELSE 0) + Newlines(Tail(str))

\* C34: the response to a control command is one line, OK: or ERROR: by the
\* result's success, and the control client recovers the result's message
\* from it.
C34_ControlResponseOneLine ==
    /\ last = "control"
          => /\ Newlines(reply.wire) = 1
             /\ Head(reply.wire) = (IF trig.success = "yes" THEN "OK: " ELSE "ERROR: ")
    /\ last = "send_command"
          => /\ reply.success = trig.success
             /\ reply.message = trig.message

\* C40: however many auto-retracts have occurred, a motion coroutine holds
\* at most an open sequence and the close sequence it called: an
\* auto-retract ends the close sequence that detected it and leaves nothing
\* suspended beneath the open cycle it starts.
C40_SuspendedSequencesBounded ==
    \A t \in BagToSet(tasks) : t.depth <= 2

\* C37: with autoretract off, a closing timer that ends while a sensor is
\* blocking goes on with the close (CLOSING_MID_OPEN after the top phase,
\* CLOSED after the mid phase), leaves total_auto_retracts as it was and
\* clears no sensor-active flag.
C37_NoRetractWhenOff ==
    [][ (/\ last' \in {"top_done", "closed", "retract_top", "retract_mid"}
         /\ Blocking
         /\ ~flag["autoretract"])
          => /\ last' \in {"top_done", "closed"}
             /\ door_status' = IF last' = "top_done" THEN DOOR_STATE_CLOSING_MID_OPEN
                                ELSE DOOR_STATE_CLOSED
             /\ total_auto_retracts' = total_auto_retracts
             /\ inside_sensor_active' = inside_sensor_active
             /\ outside_sensor_active' = outside_sensor_active
      ]_vars

C37_Witness ==
    /\ last = "closed"
    /\ door_status = DOOR_STATE_CLOSED
    /\ ~flag["autoretract"]
    /\ Blocking
    /\ total_auto_retracts = InitAutoRetracts

\* C36: a _deactivate_sensor_after timer that clears a sensor's flag is not
\* the timer of a pulse made before the activation that last set the flag.
StaleTimers(sensor, p) == Cardinality({i \in 1..Len(p[sensor]) : p[sensor][i]})

C36_EarlierPulseLeavesLaterActivation ==
    [][ last' = "deactivate" =>
          /\ (inside_sensor_active /\ ~inside_sensor_active')
                => StaleTimers("inside", pulses') = StaleTimers("inside", pulses)
          /\ (outside_sensor_active /\ ~outside_sensor_active')
                => StaleTimers("outside", pulses') = StaleTimers("outside", pulses)
      ]_vars

\* C38: after a run of discharging ticks that max(0, ...) did not clamp,
\* battery_percent is less than one point away from the initial percent
\* less the number of ticks times discharge_rate * update_interval / 60.
C38_DischargeFollowsRate ==
    (last = "tick" /\ trig.nominal # -1)
        => /\ battery_percent * Scale - trig.nominal < Scale
           /\ trig.nominal - battery_percent * Scale < Scale

\* C39: if from some point on the battery is present, AC is present and the
\* charge rate and the update interval are positive, battery_percent reaches
\* 100 at some time from then on.
Charging ==
    /\ battery_present
    /\ ac_present
    /\ battery_config.charge_rate > 0
    /\ battery_config.update_interval > 0

C39_ChargingReachesFull == <>[]Charging => []<>(battery_percent = 100)

\* The phases of a door in motion or held open by a sensor cycle.
InCycle == Opening \cup Closing \cup {DOOR_STATE_HOLDING}

\* C35: while the simulator is not shut down, if from some point on no
\* sensor is blocking close, the door does not stay for ever in RISING,
\* SLOWING, HOLDING, CLOSING_TOP_OPEN or CLOSING_MID_OPEN.
C35_OpenCycleCloses ==
    ([]~stopped /\ <>[]~Blocking) => []<>(door_status \notin InCycle)
====
